---- MODULE Spec2Model ----
(***************************************************************************)
(* StegDetector: LSB steganography codec for audio and video carriers.     *)
(*                                                                         *)
(* Texts are sequences of Unicode code points, byte strings are sequences  *)
(* of 0..255, bit streams are sequences of 0/1, audio samples are signed   *)
(* 16-bit integers and pixel bytes are 0..255.                             *)
(***************************************************************************)
EXTENDS Integers, Sequences, FiniteSets, TLC

(***************************************************************************)
(* Bounds of the model.                                                    *)
(***************************************************************************)
MaxMsgChars == 2
MaxPayloadBytes == 3
MaxTailBits == 8

(***************************************************************************)
(* Program constants.                                                      *)
(***************************************************************************)
HEADER_BYTES == 4
AUDIO_MAX_LEN_BYTES == 100000
VIDEO_MAX_LEN_BYTES == 200000

None == <<-1>>

VARIABLES cin, cout, fs, ffmpeg, res, prov, proc

codecVars == <<cin, cout>>

fileVars == <<fs, ffmpeg, res, prov>>

vars == <<cin, cout, fs, ffmpeg, res, prov, proc>>

(***************************************************************************)
(* Bit and byte arithmetic.                                                *)
(***************************************************************************)
Shr(x, i) == x \div (2 ^ i)

BitAnd1(x) == x % 2

\* (val << 1) | int(b)
ShlOr(val, b) == IF (2 * val) % 2 = 1 THEN 2 * val ELSE 2 * val + b

RECURSIVE ShiftIn(_, _, _)
\* for b in bits[from..]: val = (val << 1) | int(b)
ShiftIn(bits, i, val) ==
    IF i > Len(bits) THEN val ELSE ShiftIn(bits, i + 1, ShlOr(val, bits[i]))

RECURSIVE Flatten(_)
Flatten(seqs) ==
    IF seqs = <<>> THEN <<>> ELSE Head(seqs) \o Flatten(Tail(seqs))

(***************************************************************************)
(* str.encode("utf-8")                                                     *)
(***************************************************************************)
Utf8EncodeChar(cp) ==
    IF cp < 128 THEN <<cp>>
    ELSE IF cp < 2048 THEN <<192 + Shr(cp, 6), 128 + (cp % 64)>>
    ELSE IF cp < 65536 THEN
        <<224 + Shr(cp, 12), 128 + (Shr(cp, 6) % 64), 128 + (cp % 64)>>
    ELSE <<240 + Shr(cp, 18), 128 + (Shr(cp, 12) % 64),
           128 + (Shr(cp, 6) % 64), 128 + (cp % 64)>>

Utf8Encode(message) ==
    Flatten([i \in 1..Len(message) |-> Utf8EncodeChar(message[i])])

(***************************************************************************)
(* bytes.decode("utf-8", errors="replace"): every maximal ill-formed       *)
(* subsequence becomes one U+FFFD.                                         *)
(***************************************************************************)
REPLACEMENT == 65533

IsCont(b) == b >= 128 /\ b <= 191

\* number of continuation bytes a lead byte announces, 0 for an invalid lead
Utf8Need(b) ==
    IF b >= 194 /\ b <= 223 THEN 1
    ELSE IF b >= 224 /\ b <= 239 THEN 2
    ELSE IF b >= 240 /\ b <= 244 THEN 3
    ELSE 0

\* the range the second byte of a sequence must lie in
Utf8SecondOk(lead, b) ==
    IF lead = 224 THEN b >= 160 /\ b <= 191
    ELSE IF lead = 237 THEN b >= 128 /\ b <= 159
    ELSE IF lead = 240 THEN b >= 144 /\ b <= 191
    ELSE IF lead = 244 THEN b >= 128 /\ b <= 143
    ELSE IsCont(b)

\* how many of the announced continuation bytes are present and valid
Utf8Good(bytes, i) ==
    LET lead == bytes[i]
        need == Utf8Need(lead)
        ok(k) == /\ i + k <= Len(bytes)
                 /\ IF k = 1 THEN Utf8SecondOk(lead, bytes[i + 1])
                             ELSE IsCont(bytes[i + k])
    IN  IF need >= 1 /\ ok(1)
        THEN IF need >= 2 /\ ok(2)
             THEN IF need >= 3 /\ ok(3) THEN 3 ELSE 2
             ELSE 1
        ELSE 0

Utf8Value(bytes, i, need) ==
    IF need = 1 THEN (bytes[i] % 32) * 64 + (bytes[i + 1] % 64)
    ELSE IF need = 2 THEN
        (bytes[i] % 16) * 4096 + (bytes[i + 1] % 64) * 64 + (bytes[i + 2] % 64)
    ELSE (bytes[i] % 8) * 262144 + (bytes[i + 1] % 64) * 4096
         + (bytes[i + 2] % 64) * 64 + (bytes[i + 3] % 64)

RECURSIVE Utf8DecodeFrom(_, _)
Utf8DecodeFrom(bytes, i) ==
    IF i > Len(bytes) THEN <<>>
    ELSE IF bytes[i] < 128 THEN <<bytes[i]>> \o Utf8DecodeFrom(bytes, i + 1)
    ELSE LET need == Utf8Need(bytes[i])
             good == Utf8Good(bytes, i)
         IN  IF need = 0 THEN <<REPLACEMENT>> \o Utf8DecodeFrom(bytes, i + 1)
             ELSE IF good = need
                  THEN <<Utf8Value(bytes, i, need)>>
                       \o Utf8DecodeFrom(bytes, i + need + 1)
                  ELSE <<REPLACEMENT>> \o Utf8DecodeFrom(bytes, i + good + 1)

Utf8DecodeReplace(bytes) == Utf8DecodeFrom(bytes, 1)

(***************************************************************************)
(* str.strip() == "": every character is white space (str.isspace).        *)
(***************************************************************************)
IsSpace(cp) ==
    \/ cp \in 9..13
    \/ cp \in 28..32
    \/ cp \in {133, 160, 5760, 8232, 8233, 8239, 8287, 12288}
    \/ cp \in 8192..8202

StripIsEmpty(msg) == \A i \in 1..Len(msg) : IsSpace(msg[i])

(***************************************************************************)
(* core/stego_audio.py: _encode_message_to_bits                            *)
(***************************************************************************)
\* length.to_bytes(4, byteorder="big")
ToBytesBig(length, n) ==
    [k \in 1..n |-> Shr(length, 8 * (n - k)) % 256]

RECURSIVE BinDigits(_)
\* the binary digits of b as characters, most significant first
BinDigits(b) ==
    IF b < 2 THEN <<IF b = 1 THEN "1" ELSE "0">>
    ELSE BinDigits(b \div 2) \o <<IF b % 2 = 1 THEN "1" ELSE "0">>

\* f"{b:08b}"
Format08b(b) ==
    LET d == BinDigits(b)
    IN  [k \in 1..(IF Len(d) < 8 THEN 8 - Len(d) ELSE 0) |-> "0"] \o d

\* int(ch)
IntOfChar(ch) == IF ch = "1" THEN 1 ELSE 0

audio_encode_message_to_bits(message) ==
    LET msg_bytes == Utf8Encode(message)
        length == Len(msg_bytes)
        header == ToBytesBig(length, 4)
        payload == header \o msg_bytes
        bit_str == Flatten([k \in 1..Len(payload) |-> Format08b(payload[k])])
    IN  [k \in 1..Len(bit_str) |-> IntOfChar(bit_str[k])]

(***************************************************************************)
(* core/stego_video.py: _encode_message_to_bits                            *)
(***************************************************************************)
\* mutant: the bits of a byte least significant first
ByteBitsLsbFirst(b) == [k \in 1..8 |-> BitAnd1(Shr(b, k - 1))]

\* for i in range(7, -1, -1): bit_list.append((b >> i) & 1)
ByteBitsMsbFirst(b) == [k \in 1..8 |-> BitAnd1(Shr(b, 8 - k))]

video_encode_message_to_bits(message) ==
    LET msg_bytes == Utf8Encode(message)
        length == Len(msg_bytes)
        header == ToBytesBig(length, HEADER_BYTES)
        payload == header \o msg_bytes
    IN  Flatten([k \in 1..Len(payload) |-> ByteBitsMsbFirst(payload[k])])

(***************************************************************************)
(* _decode_bits_to_message of both modules                                 *)
(***************************************************************************)
\* bits[a:b] of the source (0-based, half open)
Slice(s, a, b) == SubSeq(s, a + 1, b)

\* msg_bits.reshape(-1, 8) and the per-byte shift loop
BytesOfBits(msg_bits) ==
    [j \in 1..(Len(msg_bits) \div 8) |->
        ShiftIn(Slice(msg_bits, 8 * (j - 1), 8 * j), 1, 0)]

\* The 32-iteration loop "length_val = (length_val << 1) | int(b)" yields an
\* unsigned 32-bit value; it is kept as two 16-bit halves <<hi, lo>>,
\* length_val = hi * 65536 + lo, because the checker's integers are 32-bit
\* signed.
HeaderValue(length_bits) ==
    <<ShiftIn(Slice(length_bits, 0, 16), 1, 0),
      ShiftIn(Slice(length_bits, 16, 32), 1, 0)>>

\* length_val <= 0
WideLeqZero(v) == v[1] = 0 /\ v[2] = 0

\* length_val > x, for 0 <= x < 2^31
WideGt(v, x) == v[1] > x \div 65536 \/ (v[1] = x \div 65536 /\ v[2] > x % 65536)

\* length_val as an integer, for values below 2^31
WideInt(v) == v[1] * 65536 + v[2]

\* mutant: the max_len_bytes check is missing
audio_decode_no_max_len(bits, max_len_bytes) ==
    IF Len(bits) < 32 THEN None
    ELSE LET length_val == HeaderValue(Slice(bits, 0, 32))
             max_possible == (Len(bits) - 32) \div 8
         IN  IF WideLeqZero(length_val) \/ WideGt(length_val, max_possible)
             THEN None
             ELSE LET msg == Utf8DecodeReplace(BytesOfBits(
                                 Slice(bits, 32, 32 + WideInt(length_val) * 8)))
                  IN  IF StripIsEmpty(msg) THEN None ELSE msg

audio_decode_bits_to_message(bits, max_len_bytes) ==
    IF Len(bits) < 32 THEN None
    ELSE LET length_val == HeaderValue(Slice(bits, 0, 32))
             max_possible == (Len(bits) - 32) \div 8
         IN  IF \/ WideLeqZero(length_val)
                \/ WideGt(length_val, max_possible)
                \/ WideGt(length_val, max_len_bytes)
             THEN None
             ELSE LET needed == 32 + WideInt(length_val) * 8
                  IN  IF Len(bits) < needed THEN None
                      ELSE LET msg == Utf8DecodeReplace(
                                         BytesOfBits(Slice(bits, 32, needed)))
                           IN  IF StripIsEmpty(msg) THEN None ELSE msg

video_decode_bits_to_message(bits, max_len_bytes) ==
    IF Len(bits) < HEADER_BYTES * 8 THEN None
    ELSE LET length_val == HeaderValue(Slice(bits, 0, HEADER_BYTES * 8))
             max_possible == (Len(bits) - HEADER_BYTES * 8) \div 8
         IN  IF \/ WideLeqZero(length_val)
                \/ WideGt(length_val, max_possible)
                \/ WideGt(length_val, max_len_bytes)
             THEN None
             ELSE LET needed == HEADER_BYTES * 8 + WideInt(length_val) * 8
                  IN  IF Len(bits) < needed THEN None
                      ELSE LET msg == Utf8DecodeReplace(BytesOfBits(
                                         Slice(bits, HEADER_BYTES * 8, needed)))
                           IN  IF StripIsEmpty(msg) THEN None ELSE msg

(***************************************************************************)
(* Files.  An audio file is a (samples, channels) array of int16; a video  *)
(* file is a sequence of frames, each an (H, W, 3) array of bytes kept as  *)
(* its shape and its row-major flattening, with an optional audio track    *)
(* and the number of audio sample rows that last as long as one frame.     *)
(***************************************************************************)
Paths == {"cover", "out", "tmp_cover_audio", "tmp_stego_audio",
          "tmp_stego_video", "tmp_extract_audio"}

NoFile == [kind |-> "nofile", data |-> <<>>, frames |-> <<>>,
           hasAudio |-> FALSE, track |-> <<>>, spf |-> 0]

\* what an external tool leaves behind when it fails after opening its output
PartialFile == [kind |-> "partial", data |-> <<>>, frames |-> <<>>,
                hasAudio |-> FALSE, track |-> <<>>, spf |-> 0]

AudioFile(int_data) ==
    [kind |-> "audio", data |-> int_data, frames |-> <<>>,
     hasAudio |-> FALSE, track |-> <<>>, spf |-> 0]

VideoFile(frames, hasAudio, track, spf) ==
    [kind |-> "video", data |-> <<>>, frames |-> frames,
     hasAudio |-> hasAudio, track |-> track, spf |-> spf]

\* frame.size
FrameSize(f) == f.shape[1] * f.shape[2] * f.shape[3]

(***************************************************************************)
(* Sentinel strings returned by the extractors.                            *)
(***************************************************************************)
AUDIO_SENTINEL ==
    <<91, 78, 111, 32, 118, 97, 108, 105, 100, 32, 76, 83, 66, 32, 116, 101,
      120, 116, 32, 112, 97, 121, 108, 111, 97, 100, 32, 102, 111, 117, 110,
      100, 32, 105, 110, 32, 116, 104, 105, 115, 32, 97, 117, 100, 105, 111,
      32, 102, 105, 108, 101, 93>>

VIDEO_SENTINEL ==
    <<91, 78, 111, 32, 118, 97, 108, 105, 100, 32, 76, 83, 66, 32, 116, 101,
      120, 116, 32, 112, 97, 121, 108, 111, 97, 100, 32, 102, 111, 117, 110,
      100, 32, 105, 110, 32, 116, 104, 105, 115, 32, 118, 105, 100, 101, 111,
      93>>

NO_FRAMES_SENTINEL ==
    <<91, 78, 111, 32, 102, 114, 97, 109, 101, 115, 32, 102, 111, 117, 110,
      100, 32, 105, 110, 32, 116, 104, 105, 115, 32, 118, 105, 100, 101, 111,
      93>>

\* "[Failed to open video: {e}]" with the exception text left empty
OPEN_FAILED_SENTINEL ==
    <<91, 70, 97, 105, 108, 101, 100, 32, 116, 111, 32, 111, 112, 101, 110,
      32, 118, 105, 100, 101, 111, 58, 32, 93>>

\* "[Error reading frames: {e}]" with the exception text left empty
READ_ERROR_SENTINEL ==
    <<91, 69, 114, 114, 111, 114, 32, 114, 101, 97, 100, 105, 110, 103, 32,
      102, 114, 97, 109, 101, 115, 58, 32, 93>>

WEB_NO_AUDIO_SENTINEL ==
    <<91, 78, 111, 32, 97, 117, 100, 105, 111, 32, 116, 114, 97, 99, 107, 32,
      102, 111, 117, 110, 100, 32, 111, 114, 32, 102, 97, 105, 108, 101, 100,
      32, 116, 111, 32, 101, 120, 116, 114, 97, 99, 116, 32, 97, 117, 100,
      105, 111, 32, 102, 114, 111, 109, 32, 116, 104, 105, 115, 32, 118, 105,
      100, 101, 111, 93>>

(***************************************************************************)
(* core/stego_audio.py: embed_lsb_audio, extract_lsb_audio                 *)
(***************************************************************************)
\* mutant: the low bit is cleared in the magnitude, rounding toward zero
AndNot1TowardZero(x) == IF x < 0 THEN -((-x) - ((-x) % 2)) ELSE x - (x % 2)

\* x & ~1 on a two's complement integer
AndNot1(x) == x - (x % 2)

\* y | b for a bit b
OrBit(y, b) == IF y % 2 = 1 THEN y ELSE y + b

\* astype(np.int16): wrap into [-32768, 32767]
AsInt16(x) == ((x + 32768) % 65536) - 32768

\* int_data.reshape(-1): row-major, sample then channel
Reshape1(int_data) == Flatten(int_data)

\* flat.reshape(shape) for shape = (samples, channels)
Reshape2(flat, samples, channels) ==
    [r \in 1..samples |-> [c \in 1..channels |-> flat[(r - 1) * channels + c]]]

\* mutant: the low bit of every sample is cleared, not only of the first
\* bits.size samples
WriteLsbAudioClearAll(flat32, bits) ==
    [i \in 1..Len(flat32) |->
        IF i <= Len(bits) THEN OrBit(AndNot1(flat32[i]), bits[i])
                          ELSE AndNot1(flat32[i])]

\* flat32[:bits.size] = (flat32[:bits.size] & ~1) | bits
WriteLsbAudio(flat32, bits) ==
    [i \in 1..Len(flat32) |->
        IF i <= Len(bits) THEN OrBit(AndNot1(flat32[i]), bits[i]) ELSE flat32[i]]

\* mutant: a message that fills the carrier exactly is refused
EmbedAudioStrict(cover, message) ==
    LET flat32 == Reshape1(cover.data)
        bits == audio_encode_message_to_bits(message)
    IN  IF Len(bits) >= Len(flat32)
        THEN [status |-> "ValueError_capacity", write |-> FALSE, file |-> NoFile]
        ELSE [status |-> "ok", write |-> TRUE,
              file |-> AudioFile(Reshape2(
                  [i \in 1..Len(flat32) |-> AsInt16(WriteLsbAudio(flat32, bits)[i])],
                  Len(cover.data), Len(cover.data[1])))]

\* the outcome of embed_lsb_audio on a cover file: the exception raised (or
\* "ok") and the file written at stego_path
EmbedAudio(cover, message) ==
    LET int_data == cover.data
        samples == Len(int_data)
        channels == IF samples = 0 THEN 0 ELSE Len(int_data[1])
        flat32 == Reshape1(int_data)
        bits == audio_encode_message_to_bits(message)
        capacity == Len(flat32)
    IN  IF Len(bits) > capacity
        THEN [status |-> "ValueError_capacity", write |-> FALSE, file |-> NoFile]
        ELSE [status |-> "ok", write |-> TRUE,
              file |-> AudioFile(Reshape2(
                  [i \in 1..capacity |-> AsInt16(WriteLsbAudio(flat32, bits)[i])],
                  samples, channels))]

\* mutant: the absent result is passed on instead of the sentinel
ExtractAudioNoSentinel(stego) ==
    LET flat32 == Reshape1(stego.data)
        bits == [i \in 1..Len(flat32) |-> flat32[i] % 2]
    IN  audio_decode_bits_to_message(bits, AUDIO_MAX_LEN_BYTES)

\* the string extract_lsb_audio returns for an audio file
ExtractAudio(stego) ==
    LET flat32 == Reshape1(stego.data)
        bits == [i \in 1..Len(flat32) |-> flat32[i] % 2]
        msg == audio_decode_bits_to_message(bits, AUDIO_MAX_LEN_BYTES)
    IN  IF msg = None THEN AUDIO_SENTINEL ELSE msg

(***************************************************************************)
(* core/stego_video.py: embed_lsb_video, extract_lsb_video                 *)
(***************************************************************************)
\* mutant: the low bit is set but never cleared
WriteLsbByteNoClear(x, bit) ==
    IF bit = 1 THEN (IF x % 2 = 1 THEN x ELSE x + 1) ELSE x

\* flat[i] | 0x01 when the bit is set, flat[i] & 0xFE otherwise
WriteLsbByte(x, bit) ==
    IF bit = 1 THEN (IF x % 2 = 1 THEN x ELSE x + 1) ELSE x - (x % 2)

WriteLsbVideo(flat, bits) ==
    [i \in 1..Len(flat) |->
        IF i <= Len(bits) THEN WriteLsbByte(flat[i], bits[i]) ELSE flat[i]]

RECURSIVE SplitFrames(_, _, _, _)
\* frames[i] = flat[idx : idx + size].reshape(frames[i].shape); idx += size
SplitFrames(flat, frames, i, idx) ==
    IF i > Len(frames) THEN <<>>
    ELSE LET size == FrameSize(frames[i])
         IN  <<[shape |-> frames[i].shape, px |-> Slice(flat, idx, idx + size)]>>
             \o SplitFrames(flat, frames, i + 1, idx + size)

ConcatFrames(frames) == Flatten([i \in 1..Len(frames) |-> frames[i].px])

\* One subprocess.run of ffmpeg: its return code and captured stderr text
SubprocessRun(tool, ok) ==
    [tool |-> tool, returncode |-> IF ok THEN 0 ELSE 1,
     stderr |-> IF ok THEN <<>> ELSE <<tool, "stderr">>]

\* The outcome of embed_lsb_video: the exception raised (or "ok"), and the
\* file left at stego_path when one was written.  extract_ok and encode are
\* what the two ffmpeg runs do; a failing encode may leave a partial output.
\* runs lists the ffmpeg runs the call made, err is the stderr text in the
\* message of the exception.
EmbedVideo(cover, message, hasFfmpeg, extract_ok, encode) ==
    IF ~hasFfmpeg
    THEN [status |-> "RuntimeError_no_ffmpeg", write |-> FALSE, file |-> NoFile,
          runs |-> <<>>, err |-> <<>>]
    ELSE LET result == SubprocessRun("extract", extract_ok)
         IN
    IF result.returncode # 0
    THEN [status |-> "RuntimeError_ffmpeg_extract", write |-> FALSE, file |-> NoFile,
          runs |-> <<result>>, err |-> result.stderr]
    ELSE IF cover.frames = <<>>
    THEN [status |-> "RuntimeError_no_frames", write |-> FALSE, file |-> NoFile,
          runs |-> <<result>>, err |-> <<>>]
    ELSE LET frames == cover.frames
             flat == ConcatFrames(frames)
             capacity == Len(flat)
             bits == video_encode_message_to_bits(message)
             result2 == SubprocessRun("encode", encode = "ok")
         IN  IF Len(bits) > capacity
             THEN [status |-> "ValueError_capacity", write |-> FALSE, file |-> NoFile,
                   runs |-> <<result>>, err |-> <<>>]
             ELSE IF result2.returncode = 0
             THEN [status |-> "ok", write |-> TRUE,
                   file |-> VideoFile(
                       SplitFrames(WriteLsbVideo(flat, bits), frames, 1, 0),
                       FALSE, <<>>, cover.spf),
                   runs |-> <<result, result2>>, err |-> <<>>]
             ELSE [status |-> "RuntimeError_ffmpeg_encode",
                   write |-> (encode = "fail_partial"), file |-> PartialFile,
                   runs |-> <<result, result2>>, err |-> result2.stderr]

\* the string extract_lsb_video returns; open_ok tells whether a damaged
\* container can still be opened
ExtractVideo(stego, open_ok) ==
    IF stego.kind # "video"
    THEN (IF open_ok THEN READ_ERROR_SENTINEL ELSE OPEN_FAILED_SENTINEL)
    ELSE LET bits_list == [i \in 1..Len(stego.frames) |->
                             [k \in 1..Len(stego.frames[i].px) |->
                                 stego.frames[i].px[k] % 2]]
         IN  IF bits_list = <<>> THEN NO_FRAMES_SENTINEL
             ELSE LET msg == video_decode_bits_to_message(
                                 Flatten(bits_list), VIDEO_MAX_LEN_BYTES)
                  IN  IF msg = None THEN VIDEO_SENTINEL ELSE msg

(***************************************************************************)
(* The bitstream codec as a state machine: an input is drawn, then one of  *)
(* the four functions is applied to it.                                    *)
(***************************************************************************)
SeqsUpTo(S, n) == UNION {[1..k -> S] : k \in 0..n}

\* 'A', ' ', e-acute (2 bytes), euro sign (3 bytes)
MsgAlphabet == {65, 32, 233, 8364}

Messages == SeqsUpTo(MsgAlphabet, MaxMsgChars)

\* ' ', 'A', the two bytes of e-acute, an invalid byte
ByteAlphabet == {32, 65, 195, 169, 255}

\* header values as <<high 16 bits, low 16 bits>>
HeaderValues ==
    {<<0, 0>>, <<0, 1>>, <<0, 2>>, <<0, 3>>, <<0, 4>>, <<1, 1>>, <<65535, 65535>>}

MaxLenValues == {0, 1, 2, AUDIO_MAX_LEN_BYTES}

TailBits(t) == [k \in 1..t |-> IF k \in {2, 8} THEN 1 ELSE 0]

BitsOfBytes(bytes) ==
    Flatten([k \in 1..Len(bytes) |-> [j \in 1..8 |-> (bytes[k] \div 2 ^ (8 - j)) % 2]])

HeaderBits(L) ==
    [k \in 1..32 |-> IF k <= 16 THEN (L[1] \div 2 ^ (16 - k)) % 2
                                ELSE (L[2] \div 2 ^ (32 - k)) % 2]

BitStreams ==
    {SubSeq(HeaderBits(L), 1, k) : L \in HeaderValues, k \in {0, 1, 31}}
    \cup {HeaderBits(L) \o BitsOfBytes(p) \o TailBits(t) :
            L \in HeaderValues, p \in SeqsUpTo(ByteAlphabet, MaxPayloadBytes),
            t \in 0..MaxTailBits}

\* every value of a 16-bit PCM sample
Int16Samples == (-32768)..32767

CodecInputs ==
    {[kind |-> "msg", msg |-> m, bits |-> <<>>, max_len |-> 0] : m \in Messages}
    \cup {[kind |-> "bits", msg |-> <<>>, bits |-> b, max_len |-> x] :
            b \in BitStreams, x \in MaxLenValues}

InitCodec ==
    /\ cin \in CodecInputs
    /\ cout = [fn |-> "none", out |-> <<>>]
    /\ proc = <<>>
    /\ fs = <<>>
    /\ ffmpeg = FALSE
    /\ res = <<>>
    /\ prov = <<>>

CallAudioEncode ==
    /\ cin.kind = "msg"
    /\ cout' = [fn |-> "audio_encode", out |-> audio_encode_message_to_bits(cin.msg)]
    /\ UNCHANGED <<cin, fileVars, proc>>

CallVideoEncode ==
    /\ cin.kind = "msg"
    /\ cout' = [fn |-> "video_encode", out |-> video_encode_message_to_bits(cin.msg)]
    /\ UNCHANGED <<cin, fileVars, proc>>

CallAudioDecode ==
    /\ cin.kind = "bits"
    /\ cout' = [fn |-> "audio_decode",
                out |-> audio_decode_bits_to_message(cin.bits, cin.max_len)]
    /\ UNCHANGED <<cin, fileVars, proc>>

CallVideoDecode ==
    /\ cin.kind = "bits"
    /\ cout' = [fn |-> "video_decode",
                out |-> video_decode_bits_to_message(cin.bits, cin.max_len)]
    /\ UNCHANGED <<cin, fileVars, proc>>

\* embed_lsb_audio on one sample and one payload bit: the int32 value after
\* (flat32 & ~1) | bits, and the value after astype(np.int16)
CallWriteLsbAudio ==
    /\ cin.kind = "sample"
    /\ LET flat32 == WriteLsbAudio(<<cin.sample>>, cin.bits)
       IN  cout' = [fn |-> "write_lsb_audio",
                    out |-> <<flat32[1], AsInt16(flat32[1])>>]
    /\ UNCHANGED <<cin, fileVars, proc>>

NextCodec ==
    \/ CallAudioEncode
    \/ CallVideoEncode
    \/ CallAudioDecode
    \/ CallVideoDecode

\* the sample arithmetic alone: a sample and a payload bit are drawn, then
\* the LSB is written
InitSample ==
    /\ cin \in [sample : Int16Samples, bits : {<<0>>, <<1>>}, kind : {"sample"}]
    /\ cout = [fn |-> "none", out |-> <<>>]
    /\ proc = <<>>
    /\ fs = <<>>
    /\ ffmpeg = FALSE
    /\ res = <<>>
    /\ prov = <<>>

SpecSample == InitSample /\ [][CallWriteLsbAudio]_vars

SpecCodec == InitCodec /\ [][NextCodec]_vars

(***************************************************************************)
(* Properties of the bitstream codec.                                      *)
(***************************************************************************)
RECURSIVE BigEndian(_)
\* the unsigned value of a bit sequence read most significant bit first
BigEndian(bits) ==
    IF bits = <<>> THEN 0
    ELSE 2 * BigEndian(SubSeq(bits, 1, Len(bits) - 1)) + bits[Len(bits)]

Utf8Width(cp) == IF cp < 128 THEN 1 ELSE IF cp < 2048 THEN 2
                 ELSE IF cp < 65536 THEN 3 ELSE 4

RECURSIVE Utf8ByteLength(_)
Utf8ByteLength(msg) ==
    IF msg = <<>> THEN 0 ELSE Utf8Width(Head(msg)) + Utf8ByteLength(Tail(msg))

\* C4: decode never raises; it returns absent when the stream has fewer than
\* 32 bits, when the big-endian header value L is 0, when L > max_len, when
\* L > (number of bits - 32) div 8, or when the decoded text is empty or
\* whitespace-only; otherwise it returns the text of the L bytes formed
\* MSB-first from bits 32 .. 32 + 8L - 1, ignoring all later bits.
C4_DecodeTotalAndExact ==
    (cin.kind = "bits" /\ cout.fn \in {"audio_decode", "video_decode"}) =>
        LET bits == cin.bits
            n == Len(bits)
        IN  IF n < 32 THEN cout.out = None
            ELSE LET hi == BigEndian(SubSeq(bits, 1, 16))
                     lo == BigEndian(SubSeq(bits, 17, 32))
                     avail == (n - 32) \div 8
                     LGt(x) == IF hi >= 32768 THEN TRUE ELSE hi * 65536 + lo > x
                 IN  IF (hi = 0 /\ lo = 0) \/ LGt(cin.max_len) \/ LGt(avail)
                     THEN cout.out = None
                     ELSE LET L == hi * 65536 + lo
                              text == Utf8DecodeReplace(
                                  [j \in 1..L |-> BigEndian(
                                      SubSeq(bits, 32 + 8 * (j - 1) + 1, 32 + 8 * j))])
                          IN  cout.out = IF StripIsEmpty(text) THEN None ELSE text

\* a two-byte character was decoded from a stream with five trailing bits
C4_Witness ==
    /\ cout.fn = "audio_decode"
    /\ cout.out = <<233>>
    /\ Len(cin.bits) = 32 + 16 + 5

\* C5: encode returns exactly 32 + 8n bits (n = UTF-8 byte length), the first
\* 32 being n big-endian and the rest the message bytes in order, MSB-first;
\* the audio and the video encoder return the identical sequence.
C5_WireFormat ==
    (cin.kind = "msg" /\ cout.fn \in {"audio_encode", "video_encode"}) =>
        LET n == Utf8ByteLength(cin.msg)
            bytes == Utf8Encode(cin.msg)
            out == cout.out
        IN  /\ Len(out) = 32 + 8 * n
            /\ \A k \in 1..Len(out) : out[k] \in {0, 1}
            /\ BigEndian(SubSeq(out, 1, 32)) = n
            /\ Len(bytes) = n
            /\ \A j \in 1..n :
                 BigEndian(SubSeq(out, 32 + 8 * (j - 1) + 1, 32 + 8 * j)) = bytes[j]
            /\ audio_encode_message_to_bits(cin.msg) = out
            /\ video_encode_message_to_bits(cin.msg) = out

\* the video encoder has encoded a message with a multi-byte character
C5_Witness ==
    /\ cout.fn = "video_encode"
    /\ cin.msg = <<65, 8364>>
    /\ Len(cout.out) = 64

(***************************************************************************)
(* Carriers.  Sample and pixel values follow fixed patterns; the "ghost"   *)
(* pattern is an untouched carrier whose low bits happen to spell the      *)
(* frame of the one-byte text "A".                                         *)
(***************************************************************************)
GhostBits == HeaderBits(<<0, 1>>) \o BitsOfBytes(<<65>>)

GhostBit(i) == IF i < Len(GhostBits) THEN GhostBits[i + 1] ELSE 0

WaveSamples == <<0, -1, 1, -32768, 32767, 12345, -12346, 2, -3>>

\* the int16 sample at flattened index i (from 0)
AudioSample(pat, i) ==
    IF pat = "ghost" THEN 2 * ((i * 3) % 50) - 40 + GhostBit(i)
    ELSE WaveSamples[(i % Len(WaveSamples)) + 1]

\* the pixel byte at flattened index i (from 0) of the whole frame sequence
PixelByte(pat, i) ==
    IF pat = "ghost" THEN 2 * ((i * 5) % 100) + GhostBit(i)
    ELSE (i * 37 + 11) % 256

AudioData(samples, channels, pat) ==
    [r \in 1..samples |->
        [c \in 1..channels |-> AudioSample(pat, (r - 1) * channels + (c - 1))]]

VideoFrames(n, h, w, pat) ==
    [f \in 1..n |->
        [shape |-> <<h, w, 3>>,
         px |-> [k \in 1..(h * w * 3) |-> PixelByte(pat, (f - 1) * h * w * 3 + k - 1)]]]

\* <<samples, channels, pattern>>
AudioCoverParams ==
    {<<30, 1, "wave">>, <<40, 1, "wave">>, <<47, 1, "wave">>,
     <<24, 2, "wave">>, <<36, 2, "wave">>, <<44, 1, "ghost">>}

\* <<frames, height, width, pattern>>
VideoCoverParams ==
    {<<0, 2, 2, "wave">>, <<2, 1, 1, "wave">>, <<3, 1, 5, "wave">>,
     <<4, 2, 2, "wave">>, <<2, 3, 4, "wave">>, <<5, 2, 2, "ghost">>}

Covers ==
    {AudioFile(AudioData(c[1], c[2], c[3])) : c \in AudioCoverParams}
    \cup {VideoFile(VideoFrames(c[1], c[2], c[3], c[4]), FALSE, <<>>, 1) :
            c \in VideoCoverParams}

(***************************************************************************)
(* The codec over files: a cover file is given, embed writes the stego     *)
(* file "out", extract reads the cover or the stego file.                  *)
(***************************************************************************)
\* the last embed call that targeted "out": its name, messages and outcome
NoProv == [by |-> "none", msgV |-> <<>>, msgA |-> <<>>, status |-> "none"]

IdleRes == [op |-> "none", path |-> "none", msgV |-> <<>>, msgA |-> <<>>,
            status |-> "none", text |-> <<>>]

IdleCin == [kind |-> "none", msg |-> <<>>, bits |-> <<>>, max_len |-> 0]

IdleCout == [fn |-> "none", out |-> <<>>]

\* What the external tool runs of one operation do.  The first failing run
\* raises and ends the operation, so one fault per operation covers all
\* cases: no fault, the frame extraction fails, the encode or the mux fails
\* before or after it has opened its output.
Faults == {"none", "extract", "encode", "encode_partial", "mux", "mux_partial"}

ExtractOk(fault) == fault # "extract"

EncodeRun(fault) ==
    IF fault = "encode" THEN "fail"
    ELSE IF fault = "encode_partial" THEN "fail_partial" ELSE "ok"

MuxRun(fault) ==
    IF fault = "mux" THEN "fail"
    ELSE IF fault = "mux_partial" THEN "fail_partial" ELSE "ok"

\* the messages callers pass: texts over 'A', ' ' and e-acute, and the text
\* that extract_lsb_audio returns when it finds no payload
FileMessages ==
    {m \in Messages : \A i \in 1..Len(m) : m[i] \in {65, 32, 233}}
        \cup {AUDIO_SENTINEL}

Init ==
    /\ \E c \in Covers : fs = [p \in Paths |-> IF p = "cover" THEN c ELSE NoFile]
    /\ ffmpeg \in BOOLEAN
    /\ res = IdleRes
    /\ prov = [p \in {"out"} |-> NoProv]
    /\ cin = IdleCin
    /\ cout = IdleCout
    /\ proc = <<>>

embed_lsb_audio ==
    /\ fs["cover"].kind = "audio"
    /\ \E message \in FileMessages :
         LET o == EmbedAudio(fs["cover"], message)
         IN  /\ fs' = IF o.write THEN [fs EXCEPT !["out"] = o.file] ELSE fs
             /\ res' = [op |-> "embed_lsb_audio", path |-> "out", msgV |-> <<>>,
                        msgA |-> message, status |-> o.status, text |-> <<>>]
             /\ prov' = [prov EXCEPT !["out"] = [by |-> "embed_lsb_audio",
                            msgV |-> <<>>, msgA |-> message, status |-> o.status]]
    /\ UNCHANGED <<ffmpeg, cin, cout, proc>>

extract_lsb_audio ==
    /\ \E path \in {"cover", "out"} :
         /\ fs[path].kind = "audio"
         /\ res' = [op |-> "extract_lsb_audio", path |-> path, msgV |-> <<>>,
                    msgA |-> <<>>, status |-> "ok", text |-> ExtractAudio(fs[path])]
    /\ UNCHANGED <<fs, ffmpeg, prov, cin, cout, proc>>

embed_lsb_video ==
    /\ fs["cover"].kind = "video"
    /\ \E message \in FileMessages, fault \in Faults \ {"mux", "mux_partial"} :
         LET o == EmbedVideo(fs["cover"], message, ffmpeg, ExtractOk(fault),
                             EncodeRun(fault))
         IN  /\ fs' = IF o.write THEN [fs EXCEPT !["out"] = o.file] ELSE fs
             /\ res' = [op |-> "embed_lsb_video", path |-> "out", msgV |-> message,
                        msgA |-> <<>>, status |-> o.status, text |-> <<>>]
             /\ prov' = [prov EXCEPT !["out"] = [by |-> "embed_lsb_video",
                            msgV |-> message, msgA |-> <<>>, status |-> o.status]]
    /\ UNCHANGED <<ffmpeg, cin, cout, proc>>

extract_lsb_video ==
    /\ \E path \in {"cover", "out"}, open_ok \in BOOLEAN :
         /\ fs[path].kind \in {"video", "partial"}
         /\ res' = [op |-> "extract_lsb_video", path |-> path, msgV |-> <<>>,
                    msgA |-> <<>>, status |-> "ok",
                    text |-> ExtractVideo(fs[path], open_ok)]
    /\ UNCHANGED <<fs, ffmpeg, prov, cin, cout, proc>>

Next ==
    \/ embed_lsb_audio
    \/ extract_lsb_audio
    \/ embed_lsb_video
    \/ extract_lsb_video

Spec == Init /\ [][Next]_vars

(***************************************************************************)
(* Video with an audio track: core/utils_av.py extract_audio_from_video,   *)
(* _mux_video_and_audio and the embed/extract functions of                 *)
(* streamlit_app.py and app/gui/main_window.py.                            *)
(***************************************************************************)
\* mutant: a video without an audio track yields a silent track
ExtractAudioFromVideoSilent(video) ==
    IF ~video.hasAudio
    THEN [status |-> "ok", write |-> TRUE,
          file |-> AudioFile([r \in 1..48 |-> <<0>>])]
    ELSE [status |-> "ok", write |-> TRUE, file |-> AudioFile(video.track)]

\* extract_audio_from_video: the track as a 16-bit PCM WAV file, or the
\* ValueError raised when clip.audio is None
ExtractAudioFromVideo(video) ==
    IF ~video.hasAudio
    THEN [status |-> "ValueError_no_audio", write |-> FALSE, file |-> NoFile]
    ELSE [status |-> "ok", write |-> TRUE, file |-> AudioFile(video.track)]

Min(a, b) == IF a < b THEN a ELSE b

\* ffmpeg -shortest: the output ends when the shorter stream ends.  A frame
\* lasts spf sample rows; the frames that begin before the end are kept.
ShortestRows(frames, spf, rows) == Min(Len(frames) * spf, Len(rows))

ShortestFrames(frames, spf, rows) ==
    LET d == ShortestRows(frames, spf, rows)
    IN  IF spf = 0 THEN 0 ELSE Min(Len(frames), (d + spf - 1) \div spf)

\* mutant: a failed mux run is tried a second time
MuxWebRetry(video, audio, hasFfmpeg, run) ==
    IF ~hasFfmpeg
    THEN [status |-> "RuntimeError_no_ffmpeg", write |-> FALSE, file |-> NoFile,
          runs |-> <<>>, err |-> <<>>]
    ELSE LET proc_run == SubprocessRun("mux", run = "ok")
         IN  IF proc_run.returncode = 0
             THEN [status |-> "ok", write |-> TRUE,
                   file |-> VideoFile(video.frames, TRUE, audio.data, video.spf),
                   runs |-> <<proc_run>>, err |-> <<>>]
             ELSE [status |-> "RuntimeError_ffmpeg_mux",
                   write |-> (run = "fail_partial"), file |-> PartialFile,
                   runs |-> <<proc_run, proc_run>>, err |-> proc_run.stderr]

\* streamlit_app.py _mux_video_and_audio: -map 0:v:0 -map 1:a:0 -c:v copy
\* -c:a flac -shortest; run is what the ffmpeg run does
MuxWeb(video, audio, hasFfmpeg, run) ==
    IF ~hasFfmpeg
    THEN [status |-> "RuntimeError_no_ffmpeg", write |-> FALSE, file |-> NoFile,
          runs |-> <<>>, err |-> <<>>]
    ELSE LET proc_run == SubprocessRun("mux", run = "ok")
         IN
    IF proc_run.returncode = 0
    THEN [status |-> "ok", write |-> TRUE,
          file |-> VideoFile(
              SubSeq(video.frames, 1,
                     ShortestFrames(video.frames, video.spf, audio.data)),
              TRUE,
              SubSeq(audio.data, 1,
                     ShortestRows(video.frames, video.spf, audio.data)),
              video.spf),
          runs |-> <<proc_run>>, err |-> <<>>]
    ELSE [status |-> "RuntimeError_ffmpeg_mux", write |-> (run = "fail_partial"),
          file |-> PartialFile, runs |-> <<proc_run>>, err |-> proc_run.stderr]

\* main_window.py _mux_video_and_audio: -map 0:v:0 -map 1:a:0 -c:v copy
\* -c:a pcm_s16le
MuxGui(video, audio, hasFfmpeg, run) ==
    IF ~hasFfmpeg
    THEN [status |-> "RuntimeError_no_ffmpeg", write |-> FALSE, file |-> NoFile,
          runs |-> <<>>, err |-> <<>>]
    ELSE LET proc_run == SubprocessRun("mux", run = "ok")
         IN
    IF proc_run.returncode = 0
    THEN [status |-> "ok", write |-> TRUE,
          file |-> VideoFile(video.frames, TRUE, audio.data, video.spf),
          runs |-> <<proc_run>>, err |-> <<>>]
    ELSE [status |-> "RuntimeError_ffmpeg_mux", write |-> (run = "fail_partial"),
          file |-> PartialFile, runs |-> <<proc_run>>, err |-> proc_run.stderr]

Mux(ui, video, audio, hasFfmpeg, run) ==
    IF ui = "web" THEN MuxWeb(video, audio, hasFfmpeg, run)
                  ELSE MuxGui(video, audio, hasFfmpeg, run)

\* the file system after an outcome o of a call that writes at path
Written(f, path, o) == IF o.write THEN [f EXCEPT ![path] = o.file] ELSE f

\* the exception text the two front ends report for a missing audio track
NoAudioStatus(ui) ==
    IF ui = "web" THEN "RuntimeError_no_audio_track" ELSE "ValueError_no_audio_track"

\* embed_video_audio_only / _embed_video_audio_only: status and file system
EmbedVideoAudioOnly(ui, f, message, hasFfmpeg, run) ==
    LET a == ExtractAudioFromVideo(f["cover"])
        f1 == Written(f, "tmp_cover_audio", a)
    IN  IF a.status # "ok"
        THEN [status |-> NoAudioStatus(ui), fs |-> f1, runs |-> <<>>, err |-> <<>>]
        ELSE LET e == EmbedAudio(f1["tmp_cover_audio"], message)
                 f2 == Written(f1, "tmp_stego_audio", e)
             IN  IF e.status # "ok"
                 THEN [status |-> e.status, fs |-> f2, runs |-> <<>>, err |-> <<>>]
                 ELSE LET m == Mux(ui, f2["cover"], f2["tmp_stego_audio"],
                                   hasFfmpeg, run)
                      IN  [status |-> m.status, fs |-> Written(f2, "out", m),
                           runs |-> m.runs, err |-> m.err]

\* embed_video_both / _embed_video_both_single_file: status and file system
EmbedVideoBoth(ui, f, msg_video, msg_audio, hasFfmpeg, extract_ok, encode, run) ==
    LET v == EmbedVideo(f["cover"], msg_video, hasFfmpeg, extract_ok, encode)
        f0 == Written(f, "tmp_stego_video", v)
    IN  IF v.status # "ok"
        THEN [status |-> v.status, fs |-> f0, runs |-> v.runs, err |-> v.err]
        ELSE LET a == ExtractAudioFromVideo(f0["cover"])
                 f1 == Written(f0, "tmp_cover_audio", a)
             IN  IF a.status # "ok"
                 THEN [status |-> NoAudioStatus(ui), fs |-> f1,
                       runs |-> v.runs, err |-> <<>>]
                 ELSE LET e == EmbedAudio(f1["tmp_cover_audio"], msg_audio)
                          f2 == Written(f1, "tmp_stego_audio", e)
                      IN  IF e.status # "ok"
                          THEN [status |-> e.status, fs |-> f2,
                                runs |-> v.runs, err |-> <<>>]
                          ELSE LET m == Mux(ui, f2["tmp_stego_video"],
                                            f2["tmp_stego_audio"], hasFfmpeg, run)
                               IN  [status |-> m.status,
                                    fs |-> Written(f2, "out", m),
                                    runs |-> v.runs \o m.runs, err |-> m.err]

\* embedding into the frames only, then muxing the result with the audio
\* demultiplexed from the cover, untouched
EmbedFramesMuxOriginal(ui, f, message, hasFfmpeg, extract_ok, encode, run) ==
    LET v == EmbedVideo(f["cover"], message, hasFfmpeg, extract_ok, encode)
        f0 == Written(f, "tmp_stego_video", v)
    IN  IF v.status # "ok"
        THEN [status |-> v.status, fs |-> f0, runs |-> v.runs, err |-> v.err]
        ELSE LET a == ExtractAudioFromVideo(f0["cover"])
                 f1 == Written(f0, "tmp_cover_audio", a)
             IN  IF a.status # "ok"
                 THEN [status |-> NoAudioStatus(ui), fs |-> f1,
                       runs |-> v.runs, err |-> <<>>]
                 ELSE LET m == Mux(ui, f1["tmp_stego_video"],
                                   f1["tmp_cover_audio"], hasFfmpeg, run)
                      IN  [status |-> m.status, fs |-> Written(f1, "out", m),
                           runs |-> v.runs \o m.runs, err |-> m.err]

\* extract_message_from_video_audio: the returned string and the file system
ExtractMessageFromVideoAudio(f, path) ==
    LET a == IF f[path].kind = "video" THEN ExtractAudioFromVideo(f[path])
             ELSE [status |-> "Exception", write |-> FALSE, file |-> NoFile]
        f1 == Written(f, "tmp_extract_audio", a)
    IN  IF a.status # "ok" THEN [text |-> WEB_NO_AUDIO_SENTINEL, fs |-> f1]
        ELSE [text |-> ExtractAudio(f1["tmp_extract_audio"]), fs |-> f1]

(***************************************************************************)
(* Video covers with and without an audio track.  A run follows one embed  *)
(* request: the caller passes a stego_path at which no file exists yet,    *)
(* one embed operation is called, and the extractors are then applied to   *)
(* the cover and to what the operation left at stego_path.  The scratch    *)
(* directory may hold the files of an earlier request on another cover.    *)
(***************************************************************************)
\* <<frames, height, width, has audio, track rows, channels, rows per frame>>
MuxCoverParams ==
    {<<4, 2, 2, FALSE, 0, 1, 12>>,
     <<4, 2, 2, TRUE, 48, 1, 12>>,
     <<4, 2, 2, TRUE, 24, 2, 5>>,
     <<4, 2, 2, TRUE, 44, 1, 12>>,
     <<4, 2, 2, TRUE, 20, 2, 12>>}

MuxCovers ==
    {VideoFile(VideoFrames(c[1], c[2], c[3], "wave"), c[4],
               AudioData(c[5], c[6], "wave"), c[7]) : c \in MuxCoverParams}

MuxMessages == {m \in FileMessages : Len(m) <= 1}

UIs == {"web", "gui"}

\* cover_audio.wav and cover_audio_stego.wav left by an earlier request
StaleAudio == AudioFile(AudioData(40, 1, "wave"))

InitMux ==
    /\ \E c \in MuxCovers, stale \in BOOLEAN :
         fs = [p \in Paths |->
                 IF p = "cover" THEN c
                 ELSE IF stale /\ p \in {"tmp_cover_audio", "tmp_stego_audio"}
                 THEN StaleAudio ELSE NoFile]
    /\ ffmpeg \in BOOLEAN
    /\ res = IdleRes
    /\ prov = [p \in {"out"} |-> NoProv]
    /\ cin = IdleCin
    /\ cout = IdleCout
    /\ proc = [runs |-> <<>>, err |-> <<>>]

ProvAfter(op, status, msg_video, msg_audio) ==
    [by |-> op, msgV |-> msg_video, msgA |-> msg_audio, status |-> status]

embed_video_frames_only ==
    /\ prov["out"].by = "none"
    /\ \E message \in MuxMessages, fault \in Faults \ {"mux", "mux_partial"} :
         LET o == EmbedVideo(fs["cover"], message, ffmpeg, ExtractOk(fault),
                             EncodeRun(fault))
             f1 == Written(fs, "out", o)
         IN  /\ fs' = f1
             /\ res' = [op |-> "embed_video_frames_only", path |-> "out",
                        msgV |-> message, msgA |-> <<>>, status |-> o.status,
                        text |-> <<>>]
             /\ proc' = [runs |-> o.runs, err |-> o.err]
             /\ prov' = [prov EXCEPT !["out"] = ProvAfter("embed_video_frames_only",
                            o.status, message, <<>>)]
    /\ UNCHANGED <<ffmpeg, cin, cout>>

embed_video_audio_only ==
    /\ prov["out"].by = "none"
    /\ \E ui \in UIs, message \in MuxMessages, fault \in {"none", "mux", "mux_partial"} :
         LET o == EmbedVideoAudioOnly(ui, fs, message, ffmpeg, MuxRun(fault))
         IN  /\ fs' = o.fs
             /\ res' = [op |-> "embed_video_audio_only", path |-> "out",
                        msgV |-> <<>>, msgA |-> message, status |-> o.status,
                        text |-> <<>>]
             /\ proc' = [runs |-> o.runs, err |-> o.err]
             /\ prov' = [prov EXCEPT !["out"] = ProvAfter("embed_video_audio_only",
                            o.status, <<>>, message)]
    /\ UNCHANGED <<ffmpeg, cin, cout>>

embed_video_both ==
    /\ prov["out"].by = "none"
    /\ \E ui \in UIs, msg_video \in MuxMessages, msg_audio \in MuxMessages,
          fault \in Faults :
         LET o == EmbedVideoBoth(ui, fs, msg_video, msg_audio, ffmpeg,
                                 ExtractOk(fault), EncodeRun(fault), MuxRun(fault))
         IN  /\ fs' = o.fs
             /\ res' = [op |-> "embed_video_both", path |-> "out",
                        msgV |-> msg_video, msgA |-> msg_audio,
                        status |-> o.status, text |-> <<>>]
             /\ proc' = [runs |-> o.runs, err |-> o.err]
             /\ prov' = [prov EXCEPT !["out"] = ProvAfter("embed_video_both",
                            o.status, msg_video, msg_audio)]
    /\ UNCHANGED <<ffmpeg, cin, cout>>

embed_frames_mux_original ==
    /\ prov["out"].by = "none"
    /\ \E ui \in UIs, message \in MuxMessages, fault \in Faults :
         LET o == EmbedFramesMuxOriginal(ui, fs, message, ffmpeg, ExtractOk(fault),
                                         EncodeRun(fault), MuxRun(fault))
         IN  /\ fs' = o.fs
             /\ res' = [op |-> "embed_frames_mux_original", path |-> "out",
                        msgV |-> message, msgA |-> <<>>, status |-> o.status,
                        text |-> <<>>]
             /\ proc' = [runs |-> o.runs, err |-> o.err]
             /\ prov' = [prov EXCEPT !["out"] = ProvAfter("embed_frames_mux_original",
                            o.status, message, <<>>)]
    /\ UNCHANGED <<ffmpeg, cin, cout>>

extract_message_from_video_audio ==
    /\ \E path \in {"cover", "out"} :
         /\ fs[path].kind \in {"video", "partial"}
         /\ LET o == ExtractMessageFromVideoAudio(fs, path)
            IN  /\ fs' = o.fs
                /\ res' = [op |-> "extract_message_from_video_audio",
                           path |-> path, msgV |-> <<>>, msgA |-> <<>>,
                           status |-> "ok", text |-> o.text]
    /\ UNCHANGED <<ffmpeg, prov, cin, cout, proc>>

NextMux ==
    \/ embed_video_frames_only
    \/ embed_video_audio_only
    \/ embed_video_both
    \/ embed_frames_mux_original
    \/ extract_lsb_video
    \/ extract_message_from_video_audio

SpecMux == InitMux /\ [][NextMux]_vars

(***************************************************************************)
(* Properties of the codec over files.                                     *)
(***************************************************************************)
\* the carrier units of a file in flattened order: samples, sample then
\* channel, or pixel bytes, frame after frame
Units(f) ==
    IF f.kind = "audio"
    THEN LET ch == IF f.data = <<>> THEN 0 ELSE Len(f.data[1])
         IN  [i \in 1..(Len(f.data) * ch) |->
                 f.data[((i - 1) \div ch) + 1][((i - 1) % ch) + 1]]
    ELSE Flatten([k \in 1..Len(f.frames) |-> f.frames[k].px])

RECURSIVE SumSizes(_)
SumSizes(frames) ==
    IF frames = <<>> THEN 0
    ELSE Head(frames).shape[1] * Head(frames).shape[2] * Head(frames).shape[3]
         + SumSizes(Tail(frames))

\* samples x channels, or the sum of H x W x 3 over the frames
Capacity(f) ==
    IF f.kind = "audio"
    THEN Len(f.data) * (IF f.data = <<>> THEN 0 ELSE Len(f.data[1]))
    ELSE SumSizes(f.frames)

EncodedBitLength(m) == 32 + 8 * Utf8ByteLength(m)

\* the frame of a message: 4-byte big-endian length, then the UTF-8 bytes
PayloadBits(m) ==
    HeaderBits(<<0, Utf8ByteLength(m)>>) \o BitsOfBytes(Utf8Encode(m))

LsbStream(f) == [i \in 1..Len(Units(f)) |-> Units(f)[i] % 2]

\* the last operation extracted from the stego file that embed wrote
ExtractedFromEmbedded ==
    \/ /\ res.op = "extract_lsb_audio" /\ res.path = "out"
       /\ prov["out"].by = "embed_lsb_audio" /\ prov["out"].status = "ok"
    \/ /\ res.op = "extract_lsb_video" /\ res.path = "out"
       /\ prov["out"].by = "embed_lsb_video" /\ prov["out"].status = "ok"

EmbeddedMessage ==
    IF prov["out"].by = "embed_lsb_audio" THEN prov["out"].msgA
                                          ELSE prov["out"].msgV

\* C1 as stated: extracting from the carrier produced by embedding m returns
\* exactly m, for every message m that fits the carrier.
C1_RoundTripEveryMessage ==
    ExtractedFromEmbedded => res.text = EmbeddedMessage

\* C1 amended: extracting from the carrier produced by embedding m returns
\* exactly m, for every message m that fits the carrier, is not empty or
\* whitespace-only and has at most 100,000 (audio) or 200,000 (video) bytes.
C1_RoundTrip ==
    ExtractedFromEmbedded =>
        LET m == EmbeddedMessage
            limit == IF res.op = "extract_lsb_audio" THEN 100000 ELSE 200000
        IN  (~StripIsEmpty(m) /\ Utf8ByteLength(m) <= limit) => res.text = m

\* a two-character message with a two-byte character came back from a video
C1_Witness ==
    /\ ExtractedFromEmbedded
    /\ res.op = "extract_lsb_video"
    /\ EmbeddedMessage = <<65, 233>>
    /\ res.text = <<65, 233>>

\* C2: embed succeeds when the encoded bit length equals the capacity
\* (samples x channels, sum of H x W x 3 over the frames) and raises the
\* capacity ValueError, writing nothing, when it exceeds it by a bit or more
\* (for video: once ffmpeg has delivered the frames and unless the final
\* ffmpeg run fails).
C2_CapacityBoundary ==
    /\ res.op = "embed_lsb_audio" =>
         LET need == EncodedBitLength(res.msgA)
             cap == Capacity(fs["cover"])
         IN  /\ need <= cap => (res.status = "ok" /\ fs["out"].kind = "audio")
             /\ need > cap => res.status = "ValueError_capacity"
    /\ res.op = "embed_lsb_video" =>
         LET need == EncodedBitLength(res.msgV)
             cap == Capacity(fs["cover"])
             frames_read == res.status \notin {"RuntimeError_no_ffmpeg",
                               "RuntimeError_ffmpeg_extract", "RuntimeError_no_frames"}
         IN  /\ (frames_read /\ need <= cap) =>
                   res.status \in {"ok", "RuntimeError_ffmpeg_encode"}
             /\ (frames_read /\ need > cap) => res.status = "ValueError_capacity"
             /\ res.status = "ok" => (need <= cap /\ fs["out"].kind = "video")

\* a message whose encoded length equals the capacity was embedded in a video
C2_Witness ==
    /\ res.op = "embed_lsb_video"
    /\ res.status = "ok"
    /\ EncodedBitLength(res.msgV) = Capacity(fs["cover"])

\* the value of a 32-bit header is 0, or exceeds x
HeaderIsZero(bits) == \A k \in 1..32 : bits[k] = 0

HeaderExceeds(bits, x) ==
    LET hi == BigEndian(SubSeq(bits, 1, 16))
        lo == BigEndian(SubSeq(bits, 17, 32))
    IN  IF hi >= 32768 THEN TRUE ELSE hi * 65536 + lo > x

\* the stream is shorter than a header or its header is implausible
ImplausibleFrame(bits, max_len) ==
    \/ Len(bits) < 32
    \/ HeaderIsZero(bits)
    \/ HeaderExceeds(bits, max_len)
    \/ HeaderExceeds(bits, (Len(bits) - 32) \div 8)

ExtractedFromCover ==
    res.op \in {"extract_lsb_audio", "extract_lsb_video"} /\ res.path = "cover"

C6_OnlyPayloadLsbsChange ==
    (res.op \in {"embed_lsb_audio", "embed_lsb_video"} /\ res.status = "ok") =>
        LET cover == fs["cover"]
            stego == fs["out"]
            payload == PayloadBits(IF res.op = "embed_lsb_audio" THEN res.msgA
                                                                  ELSE res.msgV)
            k == Len(payload)
            cu == Units(cover)
            su == Units(stego)
        IN  /\ Len(su) = Len(cu)
            /\ \A i \in 1..Len(cu) :
                 IF i <= k
                 THEN su[i] % 2 = payload[i] /\ su[i] \div 2 = cu[i] \div 2
                 ELSE su[i] = cu[i]
            /\ stego.kind = cover.kind
            /\ Len(stego.data) = Len(cover.data)
            /\ \A r \in 1..Len(cover.data) : Len(stego.data[r]) = Len(cover.data[r])
            /\ Len(stego.frames) = Len(cover.frames)
            /\ \A f \in 1..Len(cover.frames) :
                 /\ stego.frames[f].shape = cover.frames[f].shape
                 /\ Len(stego.frames[f].px) = Len(cover.frames[f].px)

\* a stereo cover with negative samples took a payload shorter than itself
C6_Witness ==
    /\ res.op = "embed_lsb_audio"
    /\ res.status = "ok"
    /\ Len(fs["cover"].data[1]) = 2
    /\ EncodedBitLength(res.msgA) < Capacity(fs["cover"])
    /\ \E r \in 1..Len(fs["out"].data) : fs["out"].data[r][1] < 0

(***************************************************************************)
(* Properties of the operations on video with an audio track.              *)
(***************************************************************************)
EmbedSucceeded(op) == prov["out"].by = op /\ prov["out"].status = "ok"

ExtractedFrames == res.op = "extract_lsb_video" /\ res.path = "out"

ExtractedAudioTrack ==
    res.op = "extract_message_from_video_audio" /\ res.path = "out"

\* C7: when an embed operation fails, whatever the cause, no file, complete
\* or partial, is left at the caller-visible output path.
C7_NoOutputFileOnFailure ==
    (prov["out"].by # "none" /\ prov["out"].status # "ok") =>
        fs["out"].kind = "nofile"

\* C8: after embed_video_both succeeds (with messages that the codec alone
\* returns unchanged: not empty, not whitespace-only), extracting from the
\* frames of out returns msg_video and extracting from the audio track of
\* out returns msg_audio.
C8_BothChannelsSurvive ==
    (/\ EmbedSucceeded("embed_video_both")
     /\ ~StripIsEmpty(prov["out"].msgV)
     /\ ~StripIsEmpty(prov["out"].msgA)) =>
        /\ ExtractedFrames => res.text = prov["out"].msgV
        /\ ExtractedAudioTrack => res.text = prov["out"].msgA

\* the low bits of the cover's own audio track hold no plausible frame
CoverTrackCarriesNothing ==
    ImplausibleFrame(LsbStream(AudioFile(fs["cover"].track)), 100000)

\* C9: when a message (one the codec alone returns unchanged) is embedded
\* into the frames only and the result is muxed with the unmodified original
\* audio (whose low bits hold no plausible frame), extraction through the
\* audio-track path returns the no-valid-payload sentinel and extraction
\* from the frames returns the message.
C9_ChannelIndependence ==
    (/\ EmbedSucceeded("embed_frames_mux_original")
     /\ ~StripIsEmpty(prov["out"].msgV)
     /\ CoverTrackCarriesNothing) =>
        /\ ExtractedAudioTrack => res.text = AUDIO_SENTINEL
        /\ ExtractedFrames => res.text = prov["out"].msgV

NoAudioRequested ==
    /\ ~fs["cover"].hasAudio
    /\ prov["out"].by \in {"embed_video_audio_only", "embed_video_both"}

NoAudioStatuses == {"RuntimeError_no_audio_track", "ValueError_no_audio_track"}

FrameStageFailures ==
    {"RuntimeError_no_ffmpeg", "RuntimeError_ffmpeg_extract",
     "RuntimeError_no_frames", "ValueError_capacity", "RuntimeError_ffmpeg_encode"}

\* C10 as stated: on a cover without an audio stream, audio-track-only and
\* both-channel embedding end in the reported 'no audio track' failure.
C10_AlwaysNoAudioFailure ==
    NoAudioRequested => prov["out"].status \in NoAudioStatuses

\* C10 amended: on a cover without an audio stream, audio-track-only and
\* both-channel embedding end in a reported failure, which is the 'no audio
\* track' failure unless the frame step of both-channel embedding has failed
\* first; no payload is embedded into any audio file and no file appears at
\* the output path.
C10_NoAudioTrack ==
    NoAudioRequested =>
        /\ \/ prov["out"].status \in NoAudioStatuses
           \/ /\ prov["out"].by = "embed_video_both"
              /\ prov["out"].status \in FrameStageFailures
        /\ fs["out"].kind = "nofile"
        /\ fs["tmp_stego_audio"] \in {NoFile, StaleAudio}
        /\ fs["tmp_cover_audio"] \in {NoFile, StaleAudio}

\* both-channel embedding wrote the stego frames, then stopped at the missing
\* audio track while the scratch directory held an older audio file
C10_Witness ==
    /\ NoAudioRequested
    /\ prov["out"].by = "embed_video_both"
    /\ prov["out"].status \in NoAudioStatuses
    /\ fs["tmp_stego_video"].kind = "video"
    /\ fs["tmp_stego_audio"] = StaleAudio

\* the files of tempfile.gettempdir() / "stegdetector_tmp"
ScratchPaths ==
    {"tmp_cover_audio", "tmp_stego_audio", "tmp_stego_video", "tmp_extract_audio"}

\* C13: when an audio-track embed, a combined embed or an audio-track extract
\* has ended, on success or failure, the scratch directory holds none of the
\* intermediate files the operation wrote (at most what an earlier request
\* had left there).
C13_ScratchRemoved ==
    (\/ prov["out"].by \in {"embed_video_audio_only", "embed_video_both"}
     \/ res.op = "extract_message_from_video_audio") =>
        \A p \in ScratchPaths : fs[p] \in {NoFile, StaleAudio}

(***************************************************************************)
(* embed_lsb_video step by step, with its frame directory.  The directory  *)
(* is tempfile.gettempdir() / "steg_video_frames" for every call, so two   *)
(* calls that overlap in time work in the same directory.  A step is one   *)
(* access to the file system.                                              *)
(***************************************************************************)
Procs == {1, 2}

TEMP_DIR == "steg_video_frames"

CoverPath(p) == IF p = 1 THEN "cover1" ELSE "cover2"

StegoPath(p) == IF p = 1 THEN "out1" ELSE "out2"

FramePaths == {TEMP_DIR} \cup {CoverPath(p) : p \in Procs}
                  \cup {StegoPath(p) : p \in Procs}

\* the directory with its files frame_000001.png, frame_000002.png, ...
FrameDir(files) ==
    [kind |-> "dir", data |-> <<>>, frames |-> files,
     hasAudio |-> FALSE, track |-> <<>>, spf |-> 0]

DirExists(f) == f[TEMP_DIR].kind = "dir"

\* writing frame_%06d.png for i = 1..Len(new) over what the directory holds
WriteFrameFiles(old, new) ==
    [i \in 1..(IF Len(old) > Len(new) THEN Len(old) ELSE Len(new)) |->
        IF i <= Len(new) THEN new[i] ELSE old[i]]

\* mutant: rmtree that leaves the directory in place
RmTreeKeeps(f) == f

\* shutil.rmtree(temp_dir) guarded by temp_dir.exists()
RmTree(f) == [f EXCEPT ![TEMP_DIR] = NoFile]

FrameCovers ==
    [p \in Procs |->
        IF p = 1 THEN VideoFile(VideoFrames(4, 2, 2, "wave"), FALSE, <<>>, 12)
        ELSE VideoFile(VideoFrames(5, 2, 2, "ghost"), FALSE, <<>>, 12)]

\* 40, 48 and 64 bits against capacities of 48 and 60 bits
FrameMessages == {<<65>>, <<233>>, <<233, 233>>}

FrameFaults == {"none", "extract", "encode", "encode_partial"}

IdleProc ==
    [pc |-> "idle", message |-> <<>>, fault |-> "none", frames |-> <<>>,
     status |-> "none", made |-> FALSE, left |-> FALSE]

InitFrames ==
    /\ \E stale \in BOOLEAN :
         fs = [q \in FramePaths |->
                 IF q = TEMP_DIR
                 THEN (IF stale THEN FrameDir(VideoFrames(1, 2, 2, "wave")) ELSE NoFile)
                 ELSE IF \E p \in Procs : q = CoverPath(p)
                 THEN FrameCovers[CHOOSE p \in Procs : q = CoverPath(p)]
                 ELSE NoFile]
    /\ ffmpeg \in BOOLEAN
    /\ proc = [p \in Procs |-> IdleProc]
    /\ res = IdleRes
    /\ prov = [p \in {"out"} |-> NoProv]
    /\ cin = IdleCin
    /\ cout = IdleCout

\* an exception inside the try block: control goes to the finally clause
Raise(p, status) ==
    proc' = [proc EXCEPT ![p].pc = "finally", ![p].status = status]

\* lines 86-97: the call and the which("ffmpeg") check, before the directory
which_ffmpeg(p) ==
    /\ proc[p].pc = "idle"
    /\ \E message \in FrameMessages, fault \in FrameFaults :
         proc' = [proc EXCEPT ![p].message = message, ![p].fault = fault,
                     ![p].pc = IF ffmpeg THEN "mktemp" ELSE "done",
                     ![p].status = IF ffmpeg THEN "none"
                                   ELSE "RuntimeError_no_ffmpeg"]
    /\ UNCHANGED <<fs, ffmpeg, res, prov, cin, cout>>

\* lines 100-103: rmtree if the directory exists, then mkdir
make_temp_dir(p) ==
    /\ proc[p].pc = "mktemp"
    /\ fs' = [fs EXCEPT ![TEMP_DIR] = FrameDir(<<>>)]
    /\ proc' = [proc EXCEPT ![p].pc = "extract", ![p].made = TRUE]
    /\ UNCHANGED <<ffmpeg, res, prov, cin, cout>>

\* lines 107-116: ffmpeg writes the cover's frames into the directory; it
\* fails when the run fails or the directory is not there
ffmpeg_extract(p) ==
    /\ proc[p].pc = "extract"
    /\ IF proc[p].fault = "extract" \/ ~DirExists(fs)
       THEN /\ Raise(p, "RuntimeError_ffmpeg_extract")
            /\ fs' = fs
       ELSE /\ fs' = [fs EXCEPT ![TEMP_DIR] = FrameDir(
                         WriteFrameFiles(fs[TEMP_DIR].frames,
                                         fs[CoverPath(p)].frames))]
            /\ proc' = [proc EXCEPT ![p].pc = "read"]
    /\ UNCHANGED <<ffmpeg, res, prov, cin, cout>>

\* lines 119-152: glob and read the frame files, check the capacity, write
\* the bits into the frames held in memory
read_and_embed(p) ==
    /\ proc[p].pc = "read"
    /\ LET frames == fs[TEMP_DIR].frames
           flat == ConcatFrames(frames)
           bits == video_encode_message_to_bits(proc[p].message)
       IN  IF ~DirExists(fs) \/ frames = <<>>
           THEN Raise(p, "RuntimeError_no_frames")
           ELSE IF Len(bits) > Len(flat)
           THEN Raise(p, "ValueError_capacity")
           ELSE proc' = [proc EXCEPT ![p].pc = "write",
                            ![p].frames =
                                SplitFrames(WriteLsbVideo(flat, bits), frames, 1, 0)]
    /\ UNCHANGED <<fs, ffmpeg, res, prov, cin, cout>>

\* lines 155-157: imageio.imwrite of every frame; it raises when the
\* directory is not there
imwrite_frames(p) ==
    /\ proc[p].pc = "write"
    /\ IF ~DirExists(fs)
       THEN /\ Raise(p, "FileNotFoundError")
            /\ fs' = fs
       ELSE /\ fs' = [fs EXCEPT ![TEMP_DIR] = FrameDir(
                         WriteFrameFiles(fs[TEMP_DIR].frames, proc[p].frames))]
            /\ proc' = [proc EXCEPT ![p].pc = "encode"]
    /\ UNCHANGED <<ffmpeg, res, prov, cin, cout>>

\* lines 160-172: ffmpeg encodes the frame files of the directory into
\* stego_path; it fails when the run fails or there is no frame file
ffmpeg_encode(p) ==
    /\ proc[p].pc = "encode"
    /\ IF proc[p].fault \in {"encode", "encode_partial"}
       THEN /\ Raise(p, "RuntimeError_ffmpeg_encode")
            /\ fs' = IF proc[p].fault = "encode_partial"
                     THEN [fs EXCEPT ![StegoPath(p)] = PartialFile] ELSE fs
       ELSE IF ~DirExists(fs) \/ fs[TEMP_DIR].frames = <<>>
       THEN /\ Raise(p, "RuntimeError_ffmpeg_encode")
            /\ fs' = fs
       ELSE /\ fs' = [fs EXCEPT ![StegoPath(p)] =
                         VideoFile(fs[TEMP_DIR].frames, FALSE, <<>>,
                                   fs[CoverPath(p)].spf)]
            /\ proc' = [proc EXCEPT ![p].pc = "finally", ![p].status = "ok"]
    /\ UNCHANGED <<ffmpeg, res, prov, cin, cout>>

\* lines 174-177: the finally clause, then the return or the re-raise
finally_rmtree(p) ==
    /\ proc[p].pc = "finally"
    /\ fs' = IF DirExists(fs) THEN RmTree(fs) ELSE fs
    /\ proc' = [proc EXCEPT ![p].pc = "done", ![p].left = DirExists(fs')]
    /\ UNCHANGED <<ffmpeg, res, prov, cin, cout>>

NextFrames ==
    \E p \in Procs :
        \/ which_ffmpeg(p)
        \/ make_temp_dir(p)
        \/ ffmpeg_extract(p)
        \/ read_and_embed(p)
        \/ imwrite_frames(p)
        \/ ffmpeg_encode(p)
        \/ finally_rmtree(p)

SpecFrames == InitFrames /\ [][NextFrames]_vars

(***************************************************************************)
(* Properties of the frame directory.                                      *)
(***************************************************************************)
Ended(p) == proc[p].pc = "done"

NoCallRunning == \A p \in Procs : proc[p].pc \in {"idle", "done"}

\* C11: on every path out of embed_lsb_video after its frame directory has
\* been created (success, capacity error, frame-extraction failure, no
\* frames, re-encode failure), the directory and its frame files do not exist
\* when the call returns or raises; with no call running none is left behind.
C11_FrameDirRemoved ==
    /\ \A p \in Procs : (Ended(p) /\ proc[p].made) => ~proc[p].left
    /\ (NoCallRunning /\ \E p \in Procs : proc[p].made) => ~DirExists(fs)

\* a call that created the directory has ended on the capacity error, the
\* other one on a failed re-encode, and the directory is gone
C11_Witness ==
    /\ Ended(1) /\ proc[1].made /\ proc[1].status = "ValueError_capacity"
    /\ Ended(2) /\ proc[2].made /\ proc[2].status = "RuntimeError_ffmpeg_encode"
    /\ ~DirExists(fs)

\* what embed_lsb_video does for call p when it runs alone
AloneOutcome(p) ==
    EmbedVideo(fs[CoverPath(p)], proc[p].message, ffmpeg,
               ExtractOk(proc[p].fault), EncodeRun(proc[p].fault))

\* C12: when two embed_lsb_video calls run concurrently (and no ffmpeg run
\* fails of itself), each ends with the outcome and the stego file it produces
\* running alone.
C12_SameOutputAsAlone ==
    \A p \in Procs :
        (Ended(p) /\ \A q \in Procs : proc[q].fault = "none") =>
            /\ proc[p].status = AloneOutcome(p).status
            /\ fs[StegoPath(p)] =
                   IF AloneOutcome(p).write THEN AloneOutcome(p).file ELSE NoFile

(***************************************************************************)
(* Detectors: core/audio_detector.py and core/video_detector.py.           *)
(* A score is a float; it is kept as <<num, den, below>>: the rational     *)
(* num/den, lowered by one rounding step when below = 1.  The null score   *)
(* has den = 0.                                                            *)
(***************************************************************************)
MaxSamples == 4
MaxDetFrames == 2

Abs(x) == IF x < 0 THEN -x ELSE x

NullScore == <<0, 0, 0>>

IsNull(s) == s[2] = 0

ScoreLt(a, b) ==
    \/ a[1] * b[2] < b[1] * a[2]
    \/ a[1] * b[2] = b[1] * a[2] /\ a[3] > b[3]

ScoreEq(a, b) == a[1] * b[2] = b[1] * a[2] /\ a[3] = b[3]

Tenths(k) == <<k, 10, 0>>

\* astype(np.int16) of a float: truncation toward zero
TruncDiv(a, b) == IF a >= 0 THEN a \div b ELSE -((-a) \div b)

Clip(x, lo, hi) == IF x < lo THEN lo ELSE IF x > hi THEN hi ELSE x

\* _load_audio_pcm16 on a mono 16-bit file: librosa.load gives y = s / 32768,
\* then np.clip(y * 32767.0, -32768, 32767).astype(np.int16)
load_audio_pcm16(samples) ==
    [i \in 1..Len(samples) |-> Clip(TruncDiv(samples[i] * 32767, 32768), -32768, 32767)]

RECURSIVE CountOnes(_)
\* np.count_nonzero(x & 1)
CountOnes(xs) ==
    IF xs = <<>> THEN 0 ELSE (Head(xs) % 2) + CountOnes(Tail(xs))

\* balance = 1.0 - abs(p1 - 0.5) * 2.0 with p1 = ones / size.  In double
\* arithmetic the result is the rational (size - |2 ones - size|) / size up
\* to rounding; the one case where rounding crosses a value the detectors
\* compare with is p1 = 0.8, which gives 0.3999999999999999.
Balance(ones, size) ==
    <<size - Abs(2 * ones - size), size, IF 5 * ones = 4 * size THEN 1 ELSE 0>>

\* mutant: the video thresholds moved
video_stat_verdict_shifted(balance) ==
    IF ScoreLt(balance, Tenths(5)) THEN "Likely clean (LSB distribution skewed)"
    ELSE IF ScoreLt(balance, Tenths(7)) THEN "Uncertain (LSB distribution moderate)"
    ELSE "Suspicious (LSB distribution very balanced)"

\* video_detector.py 49-54
video_stat_verdict(balance) ==
    IF ScoreLt(balance, Tenths(4)) THEN "Likely clean (LSB distribution skewed)"
    ELSE IF ScoreLt(balance, Tenths(7)) THEN "Uncertain (LSB distribution moderate)"
    ELSE "Suspicious (LSB distribution very balanced)"

\* audio_detector.py 59-64
audio_stat_verdict(balance) ==
    IF ScoreLt(balance, Tenths(4)) THEN "Likely clean (LSB distribution skewed)"
    ELSE IF ScoreLt(balance, Tenths(7)) THEN "Uncertain (LSB distribution moderate)"
    ELSE "Suspicious (LSB distribution very balanced)"

Entry(method, score, verdict) ==
    [raised |-> "", method |-> method, score |-> score, verdict |-> verdict]

\* the call ends with the exception exc
Raised(method, exc) ==
    [raised |-> exc, method |-> method, score |-> NullScore, verdict |-> ""]

audio_lsb_statistics_of(samples) ==
    LET pcm == load_audio_pcm16(samples)
    IN  IF Len(pcm) = 0
        THEN Entry("A1_LSB_stats", <<0, 1, 0>>, "Audio too short / invalid")
        ELSE LET balance == Balance(CountOnes(pcm), Len(pcm))
             IN  Entry("A1_LSB_stats", balance, audio_stat_verdict(balance))

\* cv2.cvtColor(frame, cv2.COLOR_BGR2GRAY) on one 8-bit pixel <<b, g, r>>:
\* OpenCV's fixed-point 0.114 b + 0.587 g + 0.299 r
Gray(px) == (px[1] * 1868 + px[2] * 9617 + px[3] * 4899 + 8192) \div 16384

\* gray.flatten() of every frame, concatenated
GrayStream(frames) ==
    Flatten([f \in 1..Len(frames) |->
                [k \in 1..Len(frames[f]) |-> Gray(frames[f][k])]])

frame_lsb_statistics_of(frames) ==
    IF frames = <<>>
    THEN Entry("V1_frame_LSB_stats", <<0, 1, 0>>, "No frames extracted")
    ELSE LET all_lsb == GrayStream(frames)
             balance == Balance(CountOnes(all_lsb), Len(all_lsb))
         IN  Entry("V1_frame_LSB_stats", balance, video_stat_verdict(balance))

\* audio_detector.py 133-138
audio_svm_verdict(proba) ==
    IF ScoreLt(proba, Tenths(3)) THEN "Likely clean"
    ELSE IF ScoreLt(proba, Tenths(7)) THEN "Uncertain"
    ELSE "Likely stego"

\* video_detector.py 204-209
video_svm_verdict(proba) ==
    IF ScoreLt(proba, Tenths(4)) THEN "Likely clean"
    ELSE IF ScoreLt(proba, Tenths(6)) THEN "Uncertain"
    ELSE "Likely stego"

\* The classifier artifact of a modality (scaler and SVM files): missing,
\* present but not loadable, loadable but trained on another feature
\* dimension, loadable but failing in predict_proba, or working.
ModelStates == {"missing", "unreadable", "mismatch", "predict_fails", "ok"}

\* audio_mfcc_svm: only the missing files are handled; joblib.load,
\* extract_audio_features (ValueError on an empty signal), scaler.transform
\* and predict_proba are called outside any try block
audio_mfcc_svm_of(samples, model, proba) ==
    IF model = "missing"
    THEN Entry("A2_MFCC_SVM", NullScore,
               "Model not trained yet. Run training/train_audio_svm.py.")
    ELSE IF model = "unreadable" THEN Raised("A2_MFCC_SVM", "Exception_joblib_load")
    ELSE IF samples = <<>> THEN Raised("A2_MFCC_SVM", "ValueError_empty_audio")
    ELSE IF model = "mismatch" THEN Raised("A2_MFCC_SVM", "ValueError_n_features")
    ELSE IF model = "predict_fails" THEN Raised("A2_MFCC_SVM", "Exception_predict_proba")
    ELSE Entry("A2_MFCC_SVM", proba, audio_svm_verdict(proba))

\* video_frame_svm: every step is wrapped and answers a null score
video_frame_svm_of(frames, model, proba) ==
    IF model = "missing"
    THEN Entry("V2_frame_SVM", NullScore,
               "Model not trained yet. Run training/train_video_svm.py.")
    ELSE IF model = "unreadable"
    THEN Entry("V2_frame_SVM", NullScore, "Could not load video SVM model: ")
    ELSE IF frames = <<>>
    THEN Entry("V2_frame_SVM", NullScore, "Feature extraction failed: ")
    ELSE IF model = "mismatch"
    THEN Entry("V2_frame_SVM", NullScore,
               "Video SVM model is not compatible with the current feature vector ")
    ELSE IF model = "predict_fails"
    THEN Entry("V2_frame_SVM", NullScore, "Video SVM prediction failed: ")
    ELSE Entry("V2_frame_SVM", proba, video_svm_verdict(proba))

NoMethod == "None"

RECURSIVE BestLoopFirstOrLast(_, _, _)
\* mutant: an equal later score replaces the best one
BestLoopFirstOrLast(results, best_score, best_method) ==
    IF results = <<>> THEN [best_score |-> best_score, best_method |-> best_method]
    ELSE LET r == Head(results)
         IN  IF IsNull(r.score)
             THEN BestLoopFirstOrLast(Tail(results), best_score, best_method)
             ELSE IF IsNull(best_score) \/ ~ScoreLt(r.score, best_score)
             THEN BestLoopFirstOrLast(Tail(results), r.score, r.method)
             ELSE BestLoopFirstOrLast(Tail(results), best_score, best_method)

RECURSIVE BestLoop(_, _, _)
\* for r in results: skip a null score; take r when there is no best score
\* yet or r["score"] > best score
BestLoop(results, best_score, best_method) ==
    IF results = <<>> THEN [best_score |-> best_score, best_method |-> best_method]
    ELSE LET r == Head(results)
         IN  IF IsNull(r.score)
             THEN BestLoop(Tail(results), best_score, best_method)
             ELSE IF IsNull(best_score) \/ ScoreLt(best_score, r.score)
             THEN BestLoop(Tail(results), r.score, r.method)
             ELSE BestLoop(Tail(results), best_score, best_method)

\* the overview dictionary, or the exception of the first method that raises
Overview(results) ==
    IF \E i \in 1..Len(results) : results[i].raised # ""
    THEN [raised |-> results[CHOOSE i \in 1..Len(results) :
                                /\ results[i].raised # ""
                                /\ \A j \in 1..(i - 1) : results[j].raised = ""].raised,
          best_score |-> NullScore, best_method |-> NoMethod, methods |-> <<>>]
    ELSE LET b == BestLoop(results, NullScore, NoMethod)
         IN  [raised |-> "", best_score |-> b.best_score,
              best_method |-> b.best_method, methods |-> results]

analyze_audio_of(samples, model, proba) ==
    Overview(<<audio_lsb_statistics_of(samples),
               audio_mfcc_svm_of(samples, model, proba)>>)

\* frames is what extract_frames returned (the empty list when it failed)
analyze_video_of(frames, model, proba) ==
    Overview(<<frame_lsb_statistics_of(frames),
               video_frame_svm_of(frames, model, proba)>>)

(***************************************************************************)
(* Carrier classification: core/utils_av.py is_audio_file, is_video_file   *)
(* and streamlit_app.py classify_file_type.  A file name is a sequence of  *)
(* one-character strings.                                                  *)
(***************************************************************************)
UpperCase == <<"A", "B", "C", "D", "E", "F", "G", "H", "I", "J", "K", "L", "M",
               "N", "O", "P", "Q", "R", "S", "T", "U", "V", "W", "X", "Y", "Z">>

LowerCase == <<"a", "b", "c", "d", "e", "f", "g", "h", "i", "j", "k", "l", "m",
               "n", "o", "p", "q", "r", "s", "t", "u", "v", "w", "x", "y", "z">>

\* str.lower() on the letters of the file names
Lower(name) ==
    [i \in 1..Len(name) |->
        IF \E k \in 1..26 : UpperCase[k] = name[i]
        THEN LowerCase[CHOOSE k \in 1..26 : UpperCase[k] = name[i]]
        ELSE name[i]]

\* the greatest index of c in name, 0 when there is none (str.rfind + 1)
RFind(name, c) ==
    IF \E i \in 1..Len(name) : name[i] = c
    THEN CHOOSE i \in 1..Len(name) :
             name[i] = c /\ \A j \in (i + 1)..Len(name) : name[j] # c
    ELSE 0

RECURSIVE StripSlashes(_)
\* pathlib drops trailing separators
StripSlashes(path) ==
    IF Len(path) > 1 /\ path[Len(path)] = "/"
    THEN StripSlashes(SubSeq(path, 1, Len(path) - 1)) ELSE path

\* Path(path).name: the final component
PathName(path) ==
    LET q == StripSlashes(path)
    IN  SubSeq(q, RFind(q, "/") + 1, Len(q))

\* Path(path).suffix: from the last dot of the name, when that dot is
\* neither its first nor its last character
Suffix(path) ==
    LET name == PathName(path)
        i == RFind(name, ".")
    IN  IF 1 < i /\ i < Len(name) THEN SubSeq(name, i, Len(name)) ELSE <<>>

Ext(a, b, c) == <<".", a, b, c>>

AUDIO_EXTENSIONS ==
    {Ext("w", "a", "v"), Ext("m", "p", "3"), <<".", "f", "l", "a", "c">>,
     Ext("o", "g", "g"), Ext("m", "4", "a")}

VIDEO_EXTENSIONS ==
    {Ext("m", "p", "4"), Ext("a", "v", "i"), Ext("m", "k", "v"),
     Ext("m", "o", "v"), Ext("f", "l", "v")}

is_audio_file_of(path) == Lower(Suffix(path)) \in AUDIO_EXTENSIONS

is_video_file_of(path) == Lower(Suffix(path)) \in VIDEO_EXTENSIONS

\* the sets of classify_file_type
audio_exts ==
    {Ext("w", "a", "v"), Ext("m", "p", "3"), <<".", "f", "l", "a", "c">>,
     Ext("o", "g", "g"), Ext("m", "4", "a")}

\* mutant: .mkv is missing from the web list
video_exts_without_mkv ==
    {Ext("m", "p", "4"), Ext("a", "v", "i"), Ext("m", "o", "v"), Ext("f", "l", "v")}

video_exts ==
    {Ext("m", "p", "4"), Ext("a", "v", "i"), Ext("m", "k", "v"),
     Ext("m", "o", "v"), Ext("f", "l", "v")}

\* (kind, suffix) with kind "audio", "video" or None
classify_file_type_of(filename) ==
    LET suffix == Lower(Suffix(filename))
    IN  IF suffix \in audio_exts THEN <<"audio", suffix>>
        ELSE IF suffix \in video_exts THEN <<"video", suffix>>
        ELSE <<"None", suffix>>

(***************************************************************************)
(* The detectors and the classifiers applied to bounded inputs: an audio   *)
(* file (its mono 16-bit samples), a video (its frames, each a sequence of *)
(* <<b, g, r>> pixels), the state of the classifier artifact with the      *)
(* probability the classifier answers, or a file name.                     *)
(***************************************************************************)
SampleAlphabet == {0, 1, 2, -1}

SampleStreams == SeqsUpTo(SampleAlphabet, MaxSamples)

PixelAlphabet == {<<0, 0, 0>>, <<0, 2, 0>>, <<1, 1, 1>>, <<255, 255, 255>>}

\* frames of 1 x 2 pixels
DetFrames == SeqsUpTo({<<a, b>> : a \in PixelAlphabet, b \in PixelAlphabet},
                      MaxDetFrames)

\* P(stego) as answered by predict_proba
Probas == {<<k, 20, 0>> : k \in {0, 5, 6, 7, 8, 10, 12, 13, 14, 20}}

ModelInputs ==
    {<<m, <<0, 20, 0>>>> : m \in ModelStates \ {"ok"}}
        \cup {<<"ok", q>> : q \in Probas}

NameDirs == {<<>>, <<"d", "/">>, <<"v", ".", "m", "p", "4", "/">>}

NameStems == {<<>>, <<"a">>, <<"a", ".", "b">>, <<"A", ".", "W", "A", "V">>}

NameExts ==
    {<<>>, <<".">>, <<"/">>, Ext("w", "a", "v"), Ext("W", "A", "V"), Ext("M", "p", "3"),
     <<".", "f", "l", "a", "c">>, <<".", "F", "l", "a", "C">>, Ext("o", "g", "g"),
     Ext("m", "4", "a"), Ext("m", "p", "4"), Ext("A", "V", "I"), Ext("m", "k", "v"),
     Ext("M", "O", "V"), Ext("f", "l", "v"), Ext("t", "x", "t"),
     <<".", "w", "a", "v", "e">>, <<".", "m", "p">>,
     <<".", "w", "a", "v", ".", "t", "x", "t">>, <<".", "m", "k", "v", "/">>}

FileNames ==
    {d \o t \o e : d \in NameDirs, t \in NameStems, e \in NameExts} \ {<<>>}

\* lsb.size of the longer inputs: p1 takes every value k / 20
GradedSize == 20

\* k samples that load with the low bit set, then samples that load as 0
GradedStreams == {[i \in 1..GradedSize |-> IF i <= k THEN 2 ELSE 0] : k \in 0..GradedSize}

\* one frame with k pixels of gray value 1, then black pixels
GradedFrames ==
    {<<[i \in 1..GradedSize |-> IF i <= k THEN <<1, 1, 1>> ELSE <<0, 0, 0>>]>> :
        k \in 0..GradedSize}

AnalyzeInput(kind, samples, frames, mp, name) ==
    [kind |-> kind, samples |-> samples, frames |-> frames,
     model |-> mp[1], proba |-> mp[2], name |-> name]

AnalyzeInputs ==
    {AnalyzeInput("audio", x, <<>>, mp, <<>>) :
         x \in SampleStreams \cup GradedStreams, mp \in ModelInputs}
        \cup {AnalyzeInput("video", <<>>, f, mp, <<>>) :
                 f \in DetFrames \cup GradedFrames, mp \in ModelInputs}
        \cup {AnalyzeInput("name", <<>>, <<>>, <<"missing", <<0, 20, 0>>>>, n) :
                 n \in FileNames}

InitAnalyze ==
    /\ cin \in AnalyzeInputs
    /\ cout = IdleCout
    /\ fs = <<>>
    /\ ffmpeg = FALSE
    /\ res = <<>>
    /\ prov = <<>>
    /\ proc = [kind \in {"audio", "video"} |-> 0]

\* proc counts, for the audio and for the video pair of artifacts, how often
\* the process has read the pair from disk: 0, 1, or 2 for twice or more.
\* Both learned methods call joblib.load on the scaler and on the classifier
\* in every call in which both files exist.
AfterLoad(kind) ==
    IF cin.model = "missing" THEN proc
    ELSE [proc EXCEPT ![kind] = IF @ < 2 THEN @ + 1 ELSE @]

Answer(fn, out, loads) ==
    /\ cout' = [fn |-> fn, out |-> out]
    /\ proc' = loads
    /\ UNCHANGED <<cin, fileVars>>

audio_lsb_statistics ==
    /\ cin.kind = "audio"
    /\ Answer("audio_lsb_statistics", audio_lsb_statistics_of(cin.samples), proc)

audio_mfcc_svm ==
    /\ cin.kind = "audio"
    /\ Answer("audio_mfcc_svm", audio_mfcc_svm_of(cin.samples, cin.model, cin.proba),
              AfterLoad("audio"))

analyze_audio ==
    /\ cin.kind = "audio"
    /\ Answer("analyze_audio", analyze_audio_of(cin.samples, cin.model, cin.proba),
              AfterLoad("audio"))

frame_lsb_statistics ==
    /\ cin.kind = "video"
    /\ Answer("frame_lsb_statistics", frame_lsb_statistics_of(cin.frames), proc)

video_frame_svm ==
    /\ cin.kind = "video"
    /\ Answer("video_frame_svm", video_frame_svm_of(cin.frames, cin.model, cin.proba),
              AfterLoad("video"))

analyze_video ==
    /\ cin.kind = "video"
    /\ Answer("analyze_video", analyze_video_of(cin.frames, cin.model, cin.proba),
              AfterLoad("video"))

\* is_audio_file and is_video_file, as the desktop call sites ask them
is_audio_or_video_file ==
    /\ cin.kind = "name"
    /\ Answer("is_audio_or_video_file",
              <<is_audio_file_of(cin.name), is_video_file_of(cin.name)>>, proc)

classify_file_type ==
    /\ cin.kind = "name"
    /\ Answer("classify_file_type", classify_file_type_of(cin.name), proc)

NextAnalyze ==
    \/ audio_lsb_statistics
    \/ audio_mfcc_svm
    \/ analyze_audio
    \/ frame_lsb_statistics
    \/ video_frame_svm
    \/ analyze_video
    \/ is_audio_or_video_file
    \/ classify_file_type

SpecAnalyze == InitAnalyze /\ [][NextAnalyze]_vars

(***************************************************************************)
(* Properties of the detectors and of the classification.                  *)
(***************************************************************************)
ZeroScore == <<0, 1, 0>>

OneScore == <<1, 1, 0>>

InUnitInterval(s) == ~ScoreLt(s, ZeroScore) /\ ~ScoreLt(OneScore, s)

\* the LSB stream a statistical method is given: the samples of the audio
\* file, the gray values of the frames
GivenStream == IF cin.kind = "audio" THEN cin.samples ELSE GrayStream(cin.frames)

\* C14: A1 and V1 always return a numeric score in [0,1]; it is 1 when the
\* LSB stream has as many 1s as 0s and 0 when every LSB is 0.
C14_BalanceScore ==
    cout.fn \in {"audio_lsb_statistics", "frame_lsb_statistics"} =>
        LET n == Len(GivenStream)
            ones == CountOnes(GivenStream)
        IN  /\ cout.out.raised = ""
            /\ ~IsNull(cout.out.score)
            /\ InUnitInterval(cout.out.score)
            /\ (n > 0 /\ 2 * ones = n) => ScoreEq(cout.out.score, OneScore)
            /\ (n > 0 /\ ones = 0) => ScoreEq(cout.out.score, ZeroScore)

BrokenModel == cin.model \in {"missing", "unreadable", "mismatch"}

\* C15: with the classifier artifact missing, unreadable or of another
\* feature dimension, A2 and V2 do not raise and return a null score with a
\* non-empty verdict.
C15_LearnedDegrades ==
    (cout.fn \in {"audio_mfcc_svm", "video_frame_svm"} /\ BrokenModel) =>
        /\ cout.out.raised = ""
        /\ IsNull(cout.out.score)
        /\ cout.out.verdict # ""

\* C16: with the classifier artifact deleted, corrupt or incompatible,
\* analyze_audio and analyze_video do not raise, and methods holds the
\* statistical entry with a numeric score and the learned entry with a null
\* score.
C16_AnalyzeSurvivesBrokenModel ==
    (cout.fn \in {"analyze_audio", "analyze_video"} /\ BrokenModel) =>
        /\ cout.out.raised = ""
        /\ Len(cout.out.methods) = 2
        /\ ~IsNull(cout.out.methods[1].score)
        /\ InUnitInterval(cout.out.methods[1].score)
        /\ IsNull(cout.out.methods[2].score)

Returned(fns) == cout.fn \in fns /\ cout.out.raised = ""

\* the methods of a modality in evaluation order
EvaluationOrder ==
    IF cin.kind = "audio" THEN <<"A1_LSB_stats", "A2_MFCC_SVM">>
    ELSE <<"V1_frame_LSB_stats", "V2_frame_SVM">>

\* C17: the result of analyze lists every entry in evaluation order;
\* best_score is the greatest non-null score, best_method the first method in
\* that order that attains it; both are null exactly when every score is null.
C17_BestVerdict ==
    Returned({"analyze_audio", "analyze_video"}) =>
        LET ms == cout.out.methods
            scored == {i \in 1..Len(ms) : ~IsNull(ms[i].score)}
            attain == {i \in scored : ScoreEq(ms[i].score, cout.out.best_score)}
        IN  /\ [i \in 1..Len(ms) |-> ms[i].method] = EvaluationOrder
            /\ (scored = {}) <=> IsNull(cout.out.best_score)
            /\ (scored = {}) <=> (cout.out.best_method = NoMethod)
            /\ scored # {} =>
                 /\ \A i \in scored : ~ScoreLt(cout.out.best_score, ms[i].score)
                 /\ attain # {}
                 /\ \A i \in attain :
                        (\A j \in attain : i <= j) =>
                            cout.out.best_method = ms[i].method

\* both methods score 0.5: the first one stays the best
C17_Witness ==
    /\ Returned({"analyze_audio", "analyze_video"})
    /\ ScoreEq(cout.out.methods[1].score, cout.out.methods[2].score)
    /\ ScoreEq(cout.out.best_score, <<1, 2, 0>>)
    /\ cout.out.best_method = EvaluationOrder[1]

\* C18: every score that A2 or V2 maps to 'Uncertain' lies in [0.4, 0.7), the
\* interval the statistical method maps to 'Uncertain'.
C18_LearnedUncertainNarrower ==
    (/\ Returned({"audio_mfcc_svm", "video_frame_svm"})
     /\ cout.out.verdict = "Uncertain") =>
        /\ ~ScoreLt(cout.out.score, Tenths(4))
        /\ ScoreLt(cout.out.score, Tenths(7))

\* C19: for every balance value b computed by A1 or V1 the verdict is
\* 'likely clean' when b < 0.4, 'uncertain' when 0.4 <= b < 0.7 and
\* 'suspicious' when b >= 0.7, the same for both.
C19_StatVerdictMapping ==
    (/\ Returned({"audio_lsb_statistics", "frame_lsb_statistics"})
     /\ Len(GivenStream) > 0) =>
        LET b == cout.out.score
        IN  cout.out.verdict =
                IF ScoreLt(b, Tenths(4)) THEN "Likely clean (LSB distribution skewed)"
                ELSE IF ScoreLt(b, Tenths(7)) THEN "Uncertain (LSB distribution moderate)"
                ELSE "Suspicious (LSB distribution very balanced)"

\* V1 answers 'suspicious' for a balance of exactly 0.7
C19_Witness ==
    /\ Returned({"frame_lsb_statistics"})
    /\ ScoreEq(cout.out.score, Tenths(7))
    /\ cout.out.verdict = "Suspicious (LSB distribution very balanced)"

\* C20: every name is exactly one of audio, video and unrecognized; the
\* answer depends only on the lower-cased extension; is_audio_file /
\* is_video_file and classify_file_type agree.
C20_ConsistentPartition ==
    (cin.kind = "name" /\ cout.fn # "none") =>
        LET a == is_audio_file_of(cin.name)
            v == is_video_file_of(cin.name)
            c == classify_file_type_of(cin.name)
            bare == <<"x">> \o Lower(Suffix(cin.name))
        IN  /\ ~(a /\ v)
            /\ cout.fn = "is_audio_or_video_file" =>
                 /\ cout.out[1] <=> (c[1] = "audio")
                 /\ cout.out[2] <=> (c[1] = "video")
            /\ cout.fn = "classify_file_type" =>
                 /\ cout.out[1] = (IF a THEN "audio" ELSE IF v THEN "video" ELSE "None")
                 /\ cout.out[1] = classify_file_type_of(bare)[1]
                 /\ cout.out[2] = Lower(Suffix(cin.name))
            /\ a = is_audio_file_of(bare)
            /\ v = is_video_file_of(bare)

\* a name in a directory, with an upper-case video extension, classified
C20_Witness ==
    /\ cin.kind = "name"
    /\ cout.fn = "classify_file_type"
    /\ cout.out[1] = "video"
    /\ Suffix(cin.name) # Lower(Suffix(cin.name))
    /\ RFind(cin.name, "/") > 0

(***************************************************************************)
(* Tool availability and the no-payload sentinel.                          *)
(***************************************************************************)
\* C21: when ffmpeg is absent from the host, the audio operations complete
\* without a tool error, and every operation on video frames ends in a
\* reported failure and produces no result: embed_lsb_video raises and
\* writes nothing, extract_lsb_video returns a failure report.
C21_ToolAbsence ==
    ~ffmpeg =>
        /\ res.op = "embed_lsb_audio" => res.status \in {"ok", "ValueError_capacity"}
        /\ res.op = "extract_lsb_audio" => res.status = "ok"
        /\ res.op = "embed_lsb_video" =>
              (res.status = "RuntimeError_no_ffmpeg" /\ fs["out"] = NoFile)
        /\ res.op = "extract_lsb_video" =>
              res.text \in {OPEN_FAILED_SENTINEL, READ_ERROR_SENTINEL}

\* A carrier large enough for the text of the sentinel itself (52 bytes, 448
\* bits): an 8-channel audio cover of 56 sample rows; and a small video cover.
SentinelCovers ==
    {AudioFile(AudioData(56, 8, "wave")),
     VideoFile(VideoFrames(4, 2, 2, "wave"), FALSE, <<>>, 1)}

InitSentinel ==
    /\ \E c \in SentinelCovers :
         fs = [p \in Paths |-> IF p = "cover" THEN c ELSE NoFile]
    /\ ffmpeg \in BOOLEAN
    /\ res = IdleRes
    /\ prov = [p \in {"out"} |-> NoProv]
    /\ cin = IdleCin
    /\ cout = IdleCout
    /\ proc = <<>>

SpecSentinel == InitSentinel /\ [][Next]_vars

\* what _decode_bits_to_message reported to the last extract_lsb_audio call
DecodedByExtractAudio ==
    audio_decode_bits_to_message(LsbStream(fs[res.path]), AUDIO_MAX_LEN_BYTES)

\* C22: extract_lsb_audio returns the no-payload sentinel if and only if
\* the bitstream decode reported absent, so that no decoded message equals
\* the sentinel.
C22_SentinelIffAbsent ==
    res.op = "extract_lsb_audio" =>
        (res.text = AUDIO_SENTINEL <=> DecodedByExtractAudio = None)

(***************************************************************************)
(* The sample arithmetic of embed_lsb_audio.                               *)
(***************************************************************************)
\* C27: for every int16 sample x and payload bit b the value
\* (x AND NOT 1) OR b lies in [-32768, 32767], has b as its low bit, differs
\* from x by at most 1 and agrees with x in every bit above the lowest, so
\* the cast back to int16 does not change it.
C27_StaysInInt16 ==
    cout.fn = "write_lsb_audio" =>
        LET x == cin.sample
            b == cin.bits[1]
            v == cout.out[1]
        IN  /\ v \in Int16Samples
            /\ v % 2 = b
            /\ v - x \in {-1, 0, 1}
            /\ v \div 2 = x \div 2
            /\ cout.out[2] = v

\* the most negative sample took a 1 bit
C27_Witness ==
    /\ cout.fn = "write_lsb_audio"
    /\ cin.sample = -32768
    /\ cin.bits = <<1>>
    /\ cout.out = <<-32767, -32767>>

(***************************************************************************)
(* The ffmpeg runs of one embed operation on a video.                      *)
(***************************************************************************)
ToolFailures ==
    {"RuntimeError_ffmpeg_extract", "RuntimeError_ffmpeg_encode",
     "RuntimeError_ffmpeg_mux"}

\* C24: within one operation the frame extraction, the frame re-encode and
\* the mux are each run at most once; a run that returns nonzero is the
\* last run of the operation, and the operation raises one error whose
\* message carries that run's captured stderr text.
C24_NoRetry ==
    LET runs == proc.runs
    IN  /\ \A i, j \in 1..Len(runs) : i # j => runs[i].tool # runs[j].tool
        /\ \A i \in 1..Len(runs) :
              runs[i].returncode # 0 =>
                  /\ i = Len(runs)
                  /\ prov["out"].status \in ToolFailures
                  /\ proc.err = runs[i].stderr
                  /\ proc.err # <<>>
        /\ prov["out"].status \in ToolFailures =>
              (runs # <<>> /\ runs[Len(runs)].returncode # 0)

\* the mux of a combined embed failed after both earlier runs succeeded
C24_Witness ==
    /\ prov["out"].by = "embed_video_both"
    /\ prov["out"].status = "RuntimeError_ffmpeg_mux"
    /\ Len(proc.runs) = 3
    /\ proc.runs[1].returncode = 0
    /\ proc.runs[3].returncode # 0

(***************************************************************************)
(* The classifier artifacts over a sequence of analyze calls.              *)
(***************************************************************************)
\* C23: over any sequence of analyze calls in one process each (scaler,
\* classifier) pair is read from disk only by a learned method and at most
\* once.
C23_LoadedAtMostOnce ==
    /\ \A kind \in {"audio", "video"} : proc[kind] <= 1
    /\ cout.fn = "none" => \A kind \in {"audio", "video"} : proc[kind] = 0

(***************************************************************************)
(* app/gui/main_window.py: the window of the desktop front end.  proc is   *)
(* the MainWindow (its fields and the states of its widgets), fs holds the *)
(* user's files by path (disk) and the scratch directory (tmp), res is     *)
(* what the last click on Embed or Extract did: the dialog it showed, the  *)
(* texts it read from the message fields and the codec calls it made.  A file dialog offers the   *)
(* files of the disk; the texts of the message fields are what the user    *)
(* has typed when the Embed button is clicked.  The tab bar reaches every   *)
(* tab at any time, so the current tab is not part of the state, nor is    *)
(* the results view of the Analysis tab.  Every helper rewrites a scratch  *)
(* file before it reads it, so a handler starts on an empty scratch        *)
(* directory and the scratch files it leaves are not kept.                 *)
(***************************************************************************)
\* stego files created in one run
MaxEmbeds == 1

SongWav == <<"s", ".", "w", "a", "v">>

\* a video with an audio track
ClipMp4 == <<"c", ".", "m", "p", "4">>

\* a video without an audio track
MuteAvi == <<"m", ".", "a", "v", "i">>

UserFiles == {SongWav, ClipMp4, MuteAvi}

UserFile(path) ==
    IF path = SongWav THEN AudioFile(AudioData(48, 1, "wave"))
    ELSE IF path = ClipMp4
    THEN VideoFile(VideoFrames(4, 2, 2, "wave"), TRUE, AudioData(48, 1, "wave"), 12)
    ELSE VideoFile(VideoFrames(4, 2, 2, "wave"), FALSE, <<>>, 12)

\* toPlainText() of a message field
GuiTexts == {<<>>, <<32>>, <<65, 32>>}

GuiFaults == {"none", "mux"}

EMBEDDED_WAV ==
    <<"_", "e", "m", "b", "e", "d", "d", "e", "d", ".", "w", "a", "v">>

EMBEDDED_VIDEO_AVI ==
    <<"_", "e", "m", "b", "e", "d", "d", "e", "d", "_", "v", "i", "d", "e",
      "o", ".", "a", "v", "i">>

EMBEDDED_AUDIO_ONLY_MKV ==
    <<"_", "e", "m", "b", "e", "d", "d", "e", "d", "_", "a", "u", "d", "i",
      "o", "_", "o", "n", "l", "y", ".", "m", "k", "v">>

EMBEDDED_BOTH_MKV ==
    <<"_", "e", "m", "b", "e", "d", "d", "e", "d", "_", "b", "o", "t", "h",
      ".", "m", "k", "v">>

\* "[No message detected using 1-LSB extraction. Either there is no hidden
\* ASCII text, or a different stego scheme was used.]"
NO_MESSAGE_NOTICE ==
    <<91, 78, 111, 32, 109, 101, 115, 115, 97, 103, 101, 32, 100, 101, 116,
      101, 99, 116, 101, 100, 32, 117, 115, 105, 110, 103, 32, 49, 45, 76, 83,
      66, 32, 101, 120, 116, 114, 97, 99, 116, 105, 111, 110, 46, 32, 69, 105,
      116, 104, 101, 114, 32, 116, 104, 101, 114, 101, 32, 105, 115, 32, 110,
      111, 32, 104, 105, 100, 100, 101, 110, 32, 65, 83, 67, 73, 73, 32, 116,
      101, 120, 116, 44, 32, 111, 114, 32, 97, 32, 100, 105, 102, 102, 101,
      114, 101, 110, 116, 32, 115, 116, 101, 103, 111, 32, 115, 99, 104, 101,
      109, 101, 32, 119, 97, 115, 32, 117, 115, 101, 100, 46, 93>>

\* "[No valid LSB text payload found]"
NO_PAYLOAD_NOTICE ==
    <<91, 78, 111, 32, 118, 97, 108, 105, 100, 32, 76, 83, 66, 32, 116, 101,
      120, 116, 32, 112, 97, 121, 108, 111, 97, 100, 32, 102, 111, 117, 110,
      100, 93>>

\* "[Video has no audio track to extract from.]"
NO_AUDIO_TRACK_NOTICE ==
    <<91, 86, 105, 100, 101, 111, 32, 104, 97, 115, 32, 110, 111, 32, 97, 117,
      100, 105, 111, 32, 116, 114, 97, 99, 107, 32, 116, 111, 32, 101, 120,
      116, 114, 97, 99, 116, 32, 102, 114, 111, 109, 46, 93>>

\* "=== Video frames ==="
VIDEO_FRAMES_HEADING ==
    <<61, 61, 61, 32, 86, 105, 100, 101, 111, 32, 102, 114, 97, 109, 101, 115,
      32, 61, 61, 61>>

\* "=== Audio track ==="
AUDIO_TRACK_HEADING ==
    <<61, 61, 61, 32, 65, 117, 100, 105, 111, 32, 116, 114, 97, 99, 107, 32,
      61, 61, 61>>

RECURSIVE LStrip(_)
LStrip(s) == IF s # <<>> /\ IsSpace(s[1]) THEN LStrip(Tail(s)) ELSE s

RECURSIVE RStrip(_)
RStrip(s) ==
    IF s # <<>> /\ IsSpace(s[Len(s)]) THEN RStrip(SubSeq(s, 1, Len(s) - 1)) ELSE s

\* str.strip()
Strip(s) == RStrip(LStrip(s))

\* Path(path).stem: the name without its suffix
Stem(path) ==
    LET name == PathName(path)
    IN  SubSeq(name, 1, Len(name) - Len(Suffix(path)))

\* Path(path).with_name(name): the same directory, another name
WithName(path, name) ==
    LET q == StripSlashes(path)
    IN  SubSeq(q, 1, RFind(q, "/")) \o name

FileAt(disk, path) == IF path \in DOMAIN disk THEN disk[path] ELSE NoFile

\* the files one embed helper works on: its cover, its output path and the
\* scratch directory
Staged(f, cover_path, out_path) ==
    [p \in Paths |->
        IF p = "cover" THEN FileAt(f.disk, cover_path)
        ELSE IF p = "out" THEN FileAt(f.disk, out_path)
        ELSE NoFile]

\* the disk after the helper has left g
Unstaged(f, out_path, g) ==
    [disk |-> IF g["out"].kind = "nofile" THEN f.disk
              ELSE [p \in DOMAIN f.disk \cup {out_path} |->
                       IF p = out_path THEN g["out"] ELSE f.disk[p]]]

\* _refresh_embed_visibility
RefreshEmbedVisibility(w) ==
    IF w.embed_cover_is_audio
    THEN [w EXCEPT !.embed_where_group_visible = FALSE,
                   !.embed_message_video_edit_visible = FALSE,
                   !.embed_message_audio_edit_visible = TRUE,
                   !.embed_message_audio_edit_enabled = TRUE,
                   !.same_msg_checkbox_visible = FALSE]
    ELSE IF w.embed_mode = "embed_mode_video_only"
    THEN [w EXCEPT !.embed_where_group_visible = TRUE,
                   !.embed_message_video_edit_visible = TRUE,
                   !.embed_message_audio_edit_visible = FALSE,
                   !.same_msg_checkbox_visible = FALSE]
    ELSE IF w.embed_mode = "embed_mode_audio_only"
    THEN [w EXCEPT !.embed_where_group_visible = TRUE,
                   !.embed_message_video_edit_visible = FALSE,
                   !.embed_message_audio_edit_visible = TRUE,
                   !.embed_message_audio_edit_enabled = TRUE,
                   !.same_msg_checkbox_visible = FALSE]
    ELSE [w EXCEPT !.embed_where_group_visible = TRUE,
                   !.embed_message_video_edit_visible = TRUE,
                   !.embed_message_audio_edit_visible = TRUE,
                   !.same_msg_checkbox_visible = TRUE,
                   !.embed_message_audio_edit_enabled = ~w.same_msg_checkbox_checked]

\* _configure_extract_radios_for_path
ConfigureExtractRadiosForPath(w, p) ==
    LET is_a == is_audio_file_of(p)
        is_v == is_video_file_of(p)
    IN  IF is_a /\ ~is_v
        THEN [w EXCEPT !.extract_mode = "extract_mode_auto",
                       !.extract_mode_video_enabled = FALSE,
                       !.extract_mode_audio_track_enabled = FALSE]
        ELSE [w EXCEPT !.extract_mode = "extract_mode_auto",
                       !.extract_mode_video_enabled = TRUE,
                       !.extract_mode_audio_track_enabled = TRUE]

CodecCall(fn, message) == [fn |-> fn, message |-> message]

\* mutant: in 'Both' mode the two messages are passed on as typed
BothMessagesAsTyped(msg_video, msg_audio, same_for_both) ==
    [video |-> msg_video, audio |-> msg_audio, raised |-> FALSE]

\* on_embed_clicked, mode "both": the messages for the frames and for the
\* audio track after the fallbacks
BothMessages(msg_video, msg_audio, same_for_both) ==
    LET v == IF msg_video = <<>> /\ msg_audio # <<>> THEN msg_audio ELSE msg_video
    IN  IF same_for_both
        THEN [video |-> v, audio |-> v, raised |-> v = <<>>]
        ELSE [video |-> v,
              audio |-> IF msg_audio = <<>> /\ v # <<>> THEN v ELSE msg_audio,
              raised |-> FALSE]

\* what on_embed_clicked did: the dialog shown, the mode taken, the codec
\* calls made, the path of the file created and the files left
EmbedClick(dialog, mode, calls, status, out_path, f) ==
    [dialog |-> dialog, mode |-> mode, calls |-> calls, status |-> status,
     out_path |-> out_path, fs |-> f]

EmbedDone(mode, calls, status, out_path, f) ==
    EmbedClick(IF status = "ok" THEN "Embedding done" ELSE "Embedding failed",
               mode, calls, status, out_path, f)

\* _embed_audio_only
EmbedAudioOnlyGui(f, cover, message) ==
    LET out_path == WithName(cover, Stem(cover) \o EMBEDDED_WAV)
        g == Staged(f, cover, out_path)
        o == EmbedAudio(g["cover"], message)
    IN  EmbedDone("audio_file", <<CodecCall("embed_lsb_audio", message)>>,
                  o.status, out_path, Unstaged(f, out_path, Written(g, "out", o)))

\* _embed_video_frames_only
EmbedVideoFramesOnlyGui(f, cover, message, hasFfmpeg, fault) ==
    LET out_path == WithName(cover, Stem(cover) \o EMBEDDED_VIDEO_AVI)
        g == Staged(f, cover, out_path)
        o == EmbedVideo(g["cover"], message, hasFfmpeg, ExtractOk(fault),
                        EncodeRun(fault))
    IN  EmbedDone("video", <<CodecCall("embed_lsb_video", message)>>,
                  o.status, out_path, Unstaged(f, out_path, Written(g, "out", o)))

\* _embed_video_audio_only
EmbedVideoAudioOnlyGui(f, cover, message, hasFfmpeg, fault) ==
    LET out_path == WithName(cover, Stem(cover) \o EMBEDDED_AUDIO_ONLY_MKV)
        g == Staged(f, cover, out_path)
        o == EmbedVideoAudioOnly("gui", g, message, hasFfmpeg, MuxRun(fault))
    IN  EmbedDone("audio_track",
                  IF g["cover"].hasAudio
                  THEN <<CodecCall("embed_lsb_audio", message)>> ELSE <<>>,
                  o.status, out_path, Unstaged(f, out_path, o.fs))

\* _embed_video_both_single_file
EmbedVideoBothGui(f, cover, msg_video, msg_audio, hasFfmpeg, fault) ==
    LET out_path == WithName(cover, Stem(cover) \o EMBEDDED_BOTH_MKV)
        g == Staged(f, cover, out_path)
        v == EmbedVideo(g["cover"], msg_video, hasFfmpeg, ExtractOk(fault),
                        EncodeRun(fault))
        o == EmbedVideoBoth("gui", g, msg_video, msg_audio, hasFfmpeg,
                            ExtractOk(fault), EncodeRun(fault), MuxRun(fault))
    IN  EmbedDone("both",
                  <<CodecCall("embed_lsb_video", msg_video)>>
                      \o (IF v.status = "ok" /\ g["cover"].hasAudio
                          THEN <<CodecCall("embed_lsb_audio", msg_audio)>>
                          ELSE <<>>),
                  o.status, out_path, Unstaged(f, out_path, o.fs))

\* on_embed_clicked up to the end of its try block
OnEmbedClicked(w, f, video_text, audio_text, hasFfmpeg, fault) ==
    LET cover_path == w.embed_selected_cover
        is_a == is_audio_file_of(cover_path)
        is_v == is_video_file_of(cover_path)
        msg_video == IF w.embed_message_video_edit_visible
                     THEN Strip(video_text) ELSE <<>>
        msg_audio == IF w.embed_message_audio_edit_visible
                     THEN Strip(audio_text) ELSE <<>>
        same_for_both == w.same_msg_checkbox_visible /\ w.same_msg_checkbox_checked
    IN  IF cover_path = None
        THEN EmbedClick("No cover", "none", <<>>, "none", None, f)
        ELSE IF ~is_a /\ ~is_v
        THEN EmbedClick("Unsupported file", "none", <<>>, "none", None, f)
        ELSE IF msg_video = <<>> /\ msg_audio = <<>>
        THEN EmbedClick("Empty message", "none", <<>>, "none", None, f)
        ELSE IF is_a /\ ~is_v
        THEN EmbedAudioOnlyGui(f, cover_path,
                 IF msg_audio = <<>> THEN msg_video ELSE msg_audio)
        ELSE IF w.embed_mode = "embed_mode_video_only"
        THEN EmbedVideoFramesOnlyGui(f, cover_path,
                 IF msg_video = <<>> THEN msg_audio ELSE msg_video,
                 hasFfmpeg, fault)
        ELSE IF w.embed_mode = "embed_mode_audio_only"
        THEN EmbedVideoAudioOnlyGui(f, cover_path,
                 IF msg_audio = <<>> THEN msg_video ELSE msg_audio,
                 hasFfmpeg, fault)
        ELSE LET m == BothMessages(msg_video, msg_audio, same_for_both)
             IN  IF m.raised
                 THEN EmbedDone("both", <<>>, "ValueError_no_message", None, f)
                 ELSE EmbedVideoBothGui(f, cover_path, m.video, m.audio,
                                        hasFfmpeg, fault)

\* _extract_from_video_audio_track.  extract_audio_from_video returns the
\* path of the WAV file or raises, so the test of its result never fails.
ExtractFromVideoAudioTrack(video) ==
    LET a == ExtractAudioFromVideo(video)
        ok == a.status = "ok"
    IN  IF a.status # "ok" THEN [status |-> a.status, text |-> <<>>]
        ELSE IF ~ok THEN [status |-> "ok", text |-> NO_AUDIO_TRACK_NOTICE]
        ELSE [status |-> "ok", text |-> ExtractAudio(a.file)]

OrElse(text, notice) == IF text = <<>> THEN notice ELSE text

\* "\n".join(blocks) of the two labelled pieces
TwoPieces(v_msg, a_msg) ==
    VIDEO_FRAMES_HEADING \o <<10>> \o OrElse(Strip(v_msg), NO_PAYLOAD_NOTICE)
        \o <<10, 10>>
        \o AUDIO_TRACK_HEADING \o <<10>> \o OrElse(Strip(a_msg), NO_PAYLOAD_NOTICE)
        \o <<10>>

ExtractClick(dialog, mode, view) ==
    [dialog |-> dialog, mode |-> mode, view |-> view]

\* on_extract_clicked: the dialog shown and the text of extract_message_view
OnExtractClicked(w, f) ==
    LET path == w.extract_selected_file
        is_a == is_audio_file_of(path)
        is_v == is_video_file_of(path)
        file == FileAt(f.disk, path)
        mode == IF w.extract_mode = "extract_mode_video" THEN "video"
                ELSE IF w.extract_mode = "extract_mode_audio_track"
                THEN "audio_track" ELSE "auto"
    IN  IF path = None
        THEN ExtractClick("No file", "none", w.extract_message_view)
        ELSE IF ~is_a /\ ~is_v
        THEN ExtractClick("Unsupported file", "none", w.extract_message_view)
        ELSE IF is_a /\ ~is_v
        THEN ExtractClick("none", mode, OrElse(ExtractAudio(file), NO_MESSAGE_NOTICE))
        ELSE IF mode = "video"
        THEN ExtractClick("none", mode,
                          OrElse(ExtractVideo(file, TRUE), NO_MESSAGE_NOTICE))
        ELSE LET a == ExtractFromVideoAudioTrack(file)
             IN  IF a.status # "ok"
                 THEN ExtractClick("Extraction failed", mode, <<>>)
                 ELSE IF mode = "audio_track"
                 THEN ExtractClick("none", mode, OrElse(a.text, NO_MESSAGE_NOTICE))
                 ELSE ExtractClick("none", mode,
                                   TwoPieces(ExtractVideo(file, TRUE), a.text))

\* the window after __init__ and _build_ui
NewMainWindow ==
    RefreshEmbedVisibility(
        [analysis_selected_file |-> None,
         embed_selected_cover |-> None,
         extract_selected_file |-> None,
         embed_cover_is_audio |-> FALSE,
         embed_mode |-> "embed_mode_both",
         same_msg_checkbox_checked |-> FALSE,
         embed_where_group_visible |-> TRUE,
         embed_message_video_edit_visible |-> TRUE,
         embed_message_audio_edit_visible |-> TRUE,
         embed_message_audio_edit_enabled |-> TRUE,
         same_msg_checkbox_visible |-> TRUE,
         extract_mode |-> "extract_mode_auto",
         extract_mode_video_enabled |-> TRUE,
         extract_mode_audio_track_enabled |-> TRUE,
         btn_go_to_extract_enabled |-> FALSE,
         btn_go_to_analysis_enabled |-> FALSE,
         extract_message_view |-> <<>>])

GuiRes(op, dialog, mode, calls, video_text, audio_text) ==
    [op |-> op, dialog |-> dialog, mode |-> mode, calls |-> calls,
     video_text |-> video_text, audio_text |-> audio_text]

NoClick == GuiRes("none", "none", "none", <<>>, <<>>, <<>>)

InitGui ==
    /\ fs = [disk |-> [p \in UserFiles |-> UserFile(p)]]
    /\ ffmpeg = TRUE
    /\ proc = NewMainWindow
    /\ res = NoClick
    /\ prov = <<>>
    /\ cin = IdleCin
    /\ cout = IdleCout

on_analysis_browse ==
    /\ \E p \in DOMAIN fs.disk :
         proc' = [proc EXCEPT !.analysis_selected_file = p,
                              !.btn_go_to_extract_enabled = TRUE,
                              !.extract_selected_file = p]
    /\ res' = NoClick
    /\ UNCHANGED <<fs, ffmpeg, prov, cin, cout>>

on_embed_browse ==
    /\ \E p \in DOMAIN fs.disk :
         proc' = RefreshEmbedVisibility(
                     [proc EXCEPT !.embed_selected_cover = p,
                                  !.embed_cover_is_audio =
                                      is_audio_file_of(p) /\ ~is_video_file_of(p)])
    /\ res' = NoClick
    /\ UNCHANGED <<fs, ffmpeg, prov, cin, cout>>

\* a radio button of the 'where to hide' group is toggled
embed_mode_toggled ==
    /\ proc.embed_where_group_visible
    /\ \E m \in {"embed_mode_video_only", "embed_mode_audio_only",
                 "embed_mode_both"} \ {proc.embed_mode} :
         proc' = RefreshEmbedVisibility([proc EXCEPT !.embed_mode = m])
    /\ res' = NoClick
    /\ UNCHANGED <<fs, ffmpeg, prov, cin, cout>>

same_msg_checkbox_toggled ==
    /\ proc.same_msg_checkbox_visible
    /\ proc' = RefreshEmbedVisibility(
                   [proc EXCEPT !.same_msg_checkbox_checked = ~@])
    /\ res' = NoClick
    /\ UNCHANGED <<fs, ffmpeg, prov, cin, cout>>

on_embed_clicked ==
    /\ Cardinality(DOMAIN fs.disk) < Cardinality(UserFiles) + MaxEmbeds
    /\ \E video_text \in GuiTexts, audio_text \in GuiTexts, fault \in GuiFaults :
         \E o \in {OnEmbedClicked(proc, fs, video_text, audio_text, ffmpeg, fault)} :
             /\ fs' = o.fs
             /\ res' = GuiRes("on_embed_clicked", o.dialog, o.mode, o.calls,
                              video_text, audio_text)
             /\ proc' = IF o.status # "ok" THEN proc
                        ELSE ConfigureExtractRadiosForPath(
                                 [proc EXCEPT !.extract_selected_file = o.out_path,
                                              !.analysis_selected_file = o.out_path,
                                              !.btn_go_to_extract_enabled = TRUE,
                                              !.btn_go_to_analysis_enabled = TRUE],
                                 o.out_path)
    /\ UNCHANGED <<ffmpeg, prov, cin, cout>>

on_go_to_extract_clicked ==
    /\ proc.btn_go_to_extract_enabled
    /\ IF proc.analysis_selected_file = None
       THEN /\ proc' = proc
            /\ res' = GuiRes("on_go_to_extract_clicked", "No file", "none",
                             <<>>, <<>>, <<>>)
       ELSE /\ proc' = ConfigureExtractRadiosForPath(
                           [proc EXCEPT !.extract_selected_file =
                                            proc.analysis_selected_file],
                           proc.analysis_selected_file)
            /\ res' = NoClick
    /\ UNCHANGED <<fs, ffmpeg, prov, cin, cout>>

on_go_to_analysis_clicked ==
    /\ proc.btn_go_to_analysis_enabled
    /\ IF proc.extract_selected_file = None
       THEN /\ proc' = proc
            /\ res' = GuiRes("on_go_to_analysis_clicked", "No file", "none",
                             <<>>, <<>>, <<>>)
       ELSE /\ proc' = [proc EXCEPT !.analysis_selected_file =
                                        proc.extract_selected_file]
            /\ res' = NoClick
    /\ UNCHANGED <<fs, ffmpeg, prov, cin, cout>>

on_extract_browse ==
    /\ \E p \in DOMAIN fs.disk :
         proc' = [ConfigureExtractRadiosForPath(
                      [proc EXCEPT !.extract_selected_file = p], p)
                  EXCEPT !.analysis_selected_file = p,
                         !.extract_message_view = <<>>,
                         !.btn_go_to_analysis_enabled = TRUE,
                         !.btn_go_to_extract_enabled = TRUE]
    /\ res' = NoClick
    /\ UNCHANGED <<fs, ffmpeg, prov, cin, cout>>

\* the user picks a source radio button that is enabled
extract_mode_toggled ==
    /\ \E m \in {"extract_mode_auto", "extract_mode_video",
                 "extract_mode_audio_track"} \ {proc.extract_mode} :
         /\ m = "extract_mode_video" => proc.extract_mode_video_enabled
         /\ m = "extract_mode_audio_track" => proc.extract_mode_audio_track_enabled
         /\ proc' = [proc EXCEPT !.extract_mode = m]
    /\ res' = NoClick
    /\ UNCHANGED <<fs, ffmpeg, prov, cin, cout>>

on_extract_clicked ==
    /\ \E o \in {OnExtractClicked(proc, fs)} :
           /\ proc' = [proc EXCEPT !.extract_message_view = o.view]
           /\ res' = GuiRes("on_extract_clicked", o.dialog, o.mode, <<>>, <<>>, <<>>)
    /\ UNCHANGED <<fs, ffmpeg, prov, cin, cout>>

NextGui ==
    \/ on_analysis_browse
    \/ on_embed_browse
    \/ embed_mode_toggled
    \/ same_msg_checkbox_toggled
    \/ on_embed_clicked
    \/ on_go_to_extract_clicked
    \/ on_go_to_analysis_clicked
    \/ on_extract_browse
    \/ extract_mode_toggled
    \/ on_extract_clicked

SpecGui == InitGui /\ [][NextGui]_vars

(***************************************************************************)
(* Properties of the desktop window.                                       *)
(***************************************************************************)
\* the stripped texts the last Embed click read from the two message fields
TypedVideo == Strip(res.video_text)

TypedAudio == Strip(res.audio_text)

\* C25: in 'Both' mode, when exactly one of the two message fields is
\* empty every codec call of the click carries the other field's message
\* and the frame codec is called; no codec call ever carries an empty
\* message; when both fields are empty no codec is called.
C25_BothModeFallback ==
    (res.op = "on_embed_clicked" /\ proc.embed_mode = "embed_mode_both"
        /\ ~proc.embed_cover_is_audio /\ proc.embed_selected_cover # None
        /\ is_video_file_of(proc.embed_selected_cover)) =>
        /\ (TypedVideo = <<>> /\ TypedAudio = <<>>) => res.calls = <<>>
        /\ (TypedVideo = <<>> /\ TypedAudio # <<>>) =>
              /\ res.calls # <<>>
              /\ \A i \in 1..Len(res.calls) : res.calls[i].message = TypedAudio
        /\ (TypedVideo # <<>> /\ TypedAudio = <<>>) =>
              /\ res.calls # <<>>
              /\ \A i \in 1..Len(res.calls) : res.calls[i].message = TypedVideo
        /\ \A i \in 1..Len(res.calls) : res.calls[i].message # <<>>

\* the audio field was left empty and both codecs took the video message
C25_Witness ==
    /\ res.op = "on_embed_clicked"
    /\ res.mode = "both"
    /\ res.dialog = "Embedding done"
    /\ TypedAudio = <<>>
    /\ res.calls = <<CodecCall("embed_lsb_video", <<65>>),
                     CodecCall("embed_lsb_audio", <<65>>)>>

\* the file the last Extract click read
ExtractedFile == FileAt(fs.disk, proc.extract_selected_file)

\* C28: after an Auto-mode extraction on a video file without an audio
\* track the view shows the text extracted from the frames together with
\* the no-audio notice, and no failure dialog is shown.
C28_FrameResultShown ==
    (res.op = "on_extract_clicked" /\ res.mode = "auto"
        /\ is_video_file_of(proc.extract_selected_file)
        /\ ExtractedFile.kind = "video" /\ ~ExtractedFile.hasAudio) =>
        /\ res.dialog # "Extraction failed"
        /\ proc.extract_message_view =
              TwoPieces(ExtractVideo(ExtractedFile, TRUE), NO_AUDIO_TRACK_NOTICE)

\* C29: whenever the file selected on the Extract tab is a video file the
\* 'Video frames' and 'Audio track of video' radio buttons are enabled, and
\* whenever a file is selected there the 'Go to Analysis' button is
\* enabled.
C29_ExtractControlsFollowFile ==
    proc.extract_selected_file # None =>
        /\ proc.btn_go_to_analysis_enabled
        /\ is_video_file_of(proc.extract_selected_file) =>
              (proc.extract_mode_video_enabled
                  /\ proc.extract_mode_audio_track_enabled)

(***************************************************************************)
(* streamlit_app.py and auth_db.py: one browser session of the web front   *)
(* end.  Every widget event starts one run of main(); st.rerun() ends the  *)
(* run at once and asks for another one.  proc holds st.session_state      *)
(* (session), the files held by the three st.file_uploader widgets and     *)
(* whether a run has been asked for; fs holds the users table of           *)
(* users.db; res tells what the last run did.  A key of the session state  *)
(* is absent, None or holds a value.  The keys of the text, radio and      *)
(* checkbox widgets are not kept: their values are given with the click.   *)
(***************************************************************************)
MAX_AUDIO_MESSAGE_CHARS == 5000
MAX_VIDEO_MESSAGE_CHARS == 20000

AbsentKey == [tag |-> "absent", val |-> <<>>]

NoneValue == [tag |-> "none", val |-> <<>>]

Value(v) == [tag |-> "value", val |-> v]

\* st.session_state.get(key): None for an absent key
Get(s, key) == IF s[key].tag = "absent" THEN NoneValue ELSE s[key]

SharedKeys ==
    {"shared_file_bytes", "shared_file_name", "shared_file_kind",
     "shared_file_suffix"}

StegoKeys == {"stego_bytes", "stego_filename", "has_stego"}

SessionKeys == {"logged_in_user"} \cup SharedKeys \cup StegoKeys

\* mutant: the reset also forgets who is logged in
reset_app_state_and_login(s) ==
    [k \in SessionKeys |-> AbsentKey]

\* reset_app_state: st.session_state.pop(key, None) for every listed key
reset_app_state(s) ==
    [k \in SessionKeys |->
        IF k \in SharedKeys \cup StegoKeys THEN AbsentKey ELSE s[k]]

\* init_app_state
init_app_state(s) ==
    [k \in SessionKeys |->
        IF k \in {"logged_in_user"} \cup SharedKeys /\ s[k].tag = "absent"
        THEN NoneValue ELSE s[k]]

\* update_shared_file for an uploaded file within the size limit; uploaded
\* is the name of the file or None
update_shared_file(s, uploaded) ==
    IF uploaded = None THEN s
    ELSE LET c == classify_file_type_of(uploaded)
         IN  IF c[1] = "None" THEN s
             ELSE [s EXCEPT !["shared_file_bytes"] = Value(UserFile(uploaded)),
                            !["shared_file_name"] = Value(uploaded),
                            !["shared_file_kind"] = Value(c[1]),
                            !["shared_file_suffix"] = Value(c[2])]

has_shared_file(s) == Get(s, "shared_file_bytes").tag # "none"

(***************************************************************************)
(* auth_db.py.  A password is a sequence of ASCII code points; the hash    *)
(* bcrypt.hashpw makes of it is the salt and the digest of the salted      *)
(* bytes, and bcrypt.checkpw hashes again with the salt of the stored      *)
(* hash.                                                                   *)
(***************************************************************************)
MIN_PASSWORD_CHARS == 8

IsLowerAscii(c) == c \in 97..122

IsUpperAscii(c) == c \in 65..90

IsDigitAscii(c) == c \in 48..57

\* \w
IsWordChar(c) == IsLowerAscii(c) \/ IsUpperAscii(c) \/ IsDigitAscii(c) \/ c = 95

\* is_strong_password(password)[0]
is_strong_password(password) ==
    /\ Len(password) >= MIN_PASSWORD_CHARS
    /\ \E i \in 1..Len(password) : IsLowerAscii(password[i])
    /\ \E i \in 1..Len(password) : IsUpperAscii(password[i])
    /\ \E i \in 1..Len(password) : IsDigitAscii(password[i])
    /\ \E i \in 1..Len(password) :
          ~IsWordChar(password[i]) /\ ~IsSpace(password[i])

\* bcrypt.hashpw(password_bytes, salt)
HashPw(password, salt) ==
    [salt |-> salt, digest |-> <<salt>> \o Utf8Encode(password)]

\* bcrypt.checkpw(password_bytes, stored_hash)
CheckPw(password, stored_hash) == HashPw(password, stored_hash.salt) = stored_hash

\* create_user: (success, users table)
create_user(users, username, password, salt) ==
    IF ~is_strong_password(password) THEN [success |-> FALSE, users |-> users]
    ELSE IF username \in DOMAIN users THEN [success |-> FALSE, users |-> users]
    ELSE [success |-> TRUE,
          users |-> [u \in DOMAIN users \cup {username} |->
                        IF u = username THEN HashPw(password, salt) ELSE users[u]]]

\* verify_user
verify_user(users, username, password) ==
    IF username \notin DOMAIN users THEN FALSE
    ELSE CheckPw(password, users[username])

(***************************************************************************)
(* The runs of main().                                                     *)
(***************************************************************************)
UserNames == {"", "u", "w"}

\* "", "Aa1aaaaa", "Aa1!aaaa"
Passwords ==
    {<<>>, <<65, 97, 49, 97, 97, 97, 97, 97>>,
     <<65, 97, 49, 33, 97, 97, 97, 97>>}

\* bcrypt.gensalt()
Salts == {1, 2}

WebUploads == {SongWav, ClipMp4}

\* the number of uploaders that hold a file at a time
MaxUploads == 1

Uploaders == {"file_analyze", "file_embed", "file_extract"}

WebTexts == {<<>>, <<65>>}

VideoModes == {"Video frames only", "Audio track only", "Both frames + audio"}

STEGO ==  <<"_", "s", "t", "e", "g", "o">>

WebRes(event, page, tabs, user_before, name, verified, created, had_files) ==
    [event |-> event, page |-> page, tabs |-> tabs, user_before |-> user_before,
     name |-> name, verify_user |-> verified, create_user |-> created,
     had_files |-> had_files]

\* main() up to the choice of the page
PageOf(s) ==
    IF s["logged_in_user"].tag = "none" THEN "show_auth_page" ELSE "show_main_app"

\* mutant: the name is stored whatever verify_user answers
LogInUnverified(s, users, login_username, login_password) ==
    IF login_username = "" \/ login_password = <<>>
    THEN [session |-> s, rerun |-> FALSE, verified |-> FALSE]
    ELSE [session |-> [s EXCEPT !["logged_in_user"] = Value(login_username)],
          rerun |-> TRUE,
          verified |-> verify_user(users, login_username, login_password)]

\* show_auth_page, the button "Log in"
LogIn(s, users, login_username, login_password) ==
    IF login_username = "" \/ login_password = <<>>
    THEN [session |-> s, rerun |-> FALSE, verified |-> FALSE]
    ELSE IF verify_user(users, login_username, login_password)
    THEN [session |-> [s EXCEPT !["logged_in_user"] = Value(login_username)],
          rerun |-> TRUE, verified |-> TRUE]
    ELSE [session |-> s, rerun |-> FALSE, verified |-> FALSE]

\* show_auth_page, the button "Sign up"
SignUp(s, users, signup_username, signup_password, signup_password2, salt) ==
    IF signup_username = "" \/ signup_password = <<>> \/ signup_password2 = <<>>
    THEN [session |-> s, users |-> users, rerun |-> FALSE, created |-> FALSE]
    ELSE IF signup_password # signup_password2
    THEN [session |-> s, users |-> users, rerun |-> FALSE, created |-> FALSE]
    ELSE LET c == create_user(users, signup_username, signup_password, salt)
         IN  IF c.success
             THEN [session |-> [s EXCEPT !["logged_in_user"] =
                                             Value(signup_username)],
                   users |-> c.users, rerun |-> TRUE, created |-> TRUE]
             ELSE [session |-> s, users |-> users, rerun |-> FALSE,
                   created |-> FALSE]

\* the cover of the embed functions: the shared file written to a temporary
\* file
TempFiles(s) ==
    [p \in Paths |->
        IF p = "cover" THEN s["shared_file_bytes"].val ELSE NoFile]

\* the outcome of an embed function that writes the stego file itself
WroteStego(f, o) == [status |-> o.status, fs |-> Written(f, "out", o)]

\* the outcome of an embed function that works on the temporary files
Embedded(o) == [status |-> o.status, fs |-> o.fs]

\* show_embed_tab, the button "Embed message", the validation of the
\* messages: the error reported, or "ok"
ValidateMessages(kind, single, use_same_message, message, msg_video, msg_audio) ==
    IF single /\ message = <<>> THEN "error_no_message"
    ELSE IF ~single /\ use_same_message /\ message = <<>> THEN "error_no_message"
    ELSE IF ~single /\ ~use_same_message
            /\ (StripIsEmpty(msg_video) \/ StripIsEmpty(msg_audio))
    THEN "error_no_message"
    ELSE IF kind = "audio" /\ Len(message) > MAX_AUDIO_MESSAGE_CHARS
    THEN "error_too_long"
    ELSE IF kind = "video"
            /\ (IF single \/ use_same_message
                THEN Len(message) > MAX_VIDEO_MESSAGE_CHARS
                ELSE Len(msg_video) > MAX_VIDEO_MESSAGE_CHARS
                        \/ Len(msg_audio) > MAX_VIDEO_MESSAGE_CHARS)
    THEN "error_too_long"
    ELSE "ok"

\* show_embed_tab, the button "Embed message": the outcome of the embed
\* function called, or the error reported before any is called
EmbedMessage(f, kind, click, hasFfmpeg) ==
    LET single == kind = "audio" \/ click.video_mode \in {"Video frames only",
                                                           "Audio track only"}
        valid == ValidateMessages(kind, single, click.use_same_message,
                                  click.message, click.msg_video, click.msg_audio)
    IN  IF valid # "ok" THEN [status |-> valid, fs |-> f]
        ELSE IF kind = "audio"
        THEN WroteStego(f, EmbedAudio(f["cover"], click.message))
        ELSE IF ~hasFfmpeg THEN [status |-> "error_no_ffmpeg", fs |-> f]
        ELSE IF click.video_mode = "Video frames only"
        THEN WroteStego(f, EmbedVideo(f["cover"], click.message, hasFfmpeg,
                                      TRUE, "ok"))
        ELSE IF click.video_mode = "Audio track only"
        THEN Embedded(EmbedVideoAudioOnly("web", f, click.message, hasFfmpeg,
                                          "ok"))
        ELSE Embedded(EmbedVideoBoth(
                 "web", f,
                 IF click.use_same_message THEN click.message ELSE click.msg_video,
                 IF click.use_same_message THEN click.message ELSE click.msg_audio,
                 hasFfmpeg, TRUE, "ok", "ok"))

\* the session state after an outcome o of the embed function
StegoStored(s, o) ==
    IF o.status # "ok" THEN s
    ELSE [s EXCEPT !["stego_bytes"] = Value(o.fs["out"]),
                   !["stego_filename"] =
                       Value(Stem(s["shared_file_name"].val) \o STEGO
                                 \o (IF s["shared_file_kind"].val = "audio"
                                     THEN s["shared_file_suffix"].val
                                     ELSE Ext("m", "k", "v"))),
                   !["has_stego"] = Value(TRUE)]

\* the session state after the button "Embed message"
AfterEmbedMessage(s, click, hasFfmpeg) ==
    IF ~has_shared_file(s) THEN s
    ELSE StegoStored(s, EmbedMessage(TempFiles(s), s["shared_file_kind"].val,
                                     click, hasFfmpeg))

\* show_analyze_tab and show_embed_tab down to the uploader: each stores the
\* file its uploader holds
UploadersAbove(w, s) ==
    update_shared_file(update_shared_file(s, w.file_analyze), w.file_embed)

\* show_extract_tab
UploaderBelow(w, s) == update_shared_file(s, w.file_extract)

\* show_main_app below the sidebar when "Embed message" is not pressed
ShowTabs(w, s) == UploaderBelow(w, UploadersAbove(w, s))

EmptySession == [k \in SessionKeys |-> AbsentKey]

HasFiles(s) ==
    /\ Get(s, "shared_file_bytes").tag = "value"
    /\ Get(s, "stego_bytes").tag = "value"

InitWeb ==
    /\ proc = [session |-> EmptySession, file_analyze |-> None,
               file_embed |-> None, file_extract |-> None, rerun |-> TRUE]
    /\ fs = [users |-> <<>>]
    /\ ffmpeg = TRUE
    /\ res = WebRes("none", "none", FALSE, AbsentKey, "", FALSE, FALSE, FALSE)
    /\ prov = <<>>
    /\ cin = IdleCin
    /\ cout = IdleCout

\* a run of main() that no button started: the first run of the session,
\* the run asked for by st.rerun(), or the run after a widget event that
\* presses none of the buttons below.  The auth page shows no uploader, so
\* the uploaders forget their files.
script_run ==
    /\ LET s == init_app_state(proc.session)
       IN  IF PageOf(s) = "show_auth_page"
           THEN /\ proc' = [session |-> s, file_analyze |-> None,
                            file_embed |-> None, file_extract |-> None,
                            rerun |-> FALSE]
                /\ res' = WebRes("run", PageOf(s), FALSE, s["logged_in_user"],
                                 "", FALSE, FALSE, HasFiles(s))
           ELSE /\ proc' = [proc EXCEPT !.session =
                                            ShowTabs(proc, s),
                                        !.rerun = FALSE]
                /\ res' = WebRes("run", PageOf(s), TRUE, s["logged_in_user"],
                                 "", FALSE, FALSE, HasFiles(s))
    /\ UNCHANGED <<fs, ffmpeg, prov, cin, cout>>

log_in_clicked ==
    /\ ~proc.rerun
    /\ PageOf(init_app_state(proc.session)) = "show_auth_page"
    /\ \E login_username \in UserNames, login_password \in Passwords :
         \E o \in {LogIn(init_app_state(proc.session), fs.users,
                         login_username, login_password)} :
             /\ proc' = [session |-> o.session, file_analyze |-> None,
                         file_embed |-> None, file_extract |-> None,
                         rerun |-> o.rerun]
             /\ res' = WebRes("log_in", "show_auth_page", FALSE,
                              init_app_state(proc.session)["logged_in_user"],
                              login_username, o.verified, FALSE, FALSE)
    /\ UNCHANGED <<fs, ffmpeg, prov, cin, cout>>

sign_up_clicked ==
    /\ ~proc.rerun
    /\ PageOf(init_app_state(proc.session)) = "show_auth_page"
    /\ \E signup_username \in UserNames, signup_password \in Passwords,
          signup_password2 \in Passwords, salt \in Salts :
         \E o \in {SignUp(init_app_state(proc.session), fs.users, signup_username,
                          signup_password, signup_password2, salt)} :
             /\ proc' = [session |-> o.session, file_analyze |-> None,
                         file_embed |-> None, file_extract |-> None,
                         rerun |-> o.rerun]
             /\ fs' = [users |-> o.users]
             /\ res' = WebRes("sign_up", "show_auth_page", FALSE,
                              init_app_state(proc.session)["logged_in_user"],
                              signup_username, FALSE, o.created, FALSE)
    /\ UNCHANGED <<ffmpeg, prov, cin, cout>>

\* a file is put into one of the three uploaders, or taken out of it
file_uploaded ==
    /\ ~proc.rerun
    /\ PageOf(init_app_state(proc.session)) = "show_main_app"
    /\ \E key \in Uploaders, uploaded \in WebUploads \cup {None} :
         LET s == init_app_state(proc.session)
             w == [proc EXCEPT ![key] = uploaded]
         IN  /\ proc[key] # uploaded
             /\ Cardinality({k \in Uploaders : w[k] # None}) <= MaxUploads
             /\ proc' = [w EXCEPT !.session = ShowTabs(w, s)]
             /\ res' = WebRes("upload", "show_main_app", TRUE, s["logged_in_user"],
                              "", FALSE, FALSE, HasFiles(s))
    /\ UNCHANGED <<fs, ffmpeg, prov, cin, cout>>

embed_message_clicked ==
    /\ ~proc.rerun
    /\ PageOf(init_app_state(proc.session)) = "show_main_app"
    /\ \E video_mode \in VideoModes, use_same_message \in BOOLEAN,
          message \in WebTexts, msg_audio \in WebTexts :
         LET s == init_app_state(proc.session)
             click == [video_mode |-> video_mode,
                       use_same_message |-> use_same_message,
                       message |-> message, msg_video |-> message,
                       msg_audio |-> msg_audio]
         IN  /\ proc' = [proc EXCEPT !.session =
                             UploaderBelow(proc, AfterEmbedMessage(
                                 UploadersAbove(proc, s), click, ffmpeg))]
             /\ res' = WebRes("embed", "show_main_app", TRUE, s["logged_in_user"],
                              "", FALSE, FALSE, HasFiles(s))
    /\ UNCHANGED <<fs, ffmpeg, prov, cin, cout>>

\* the sidebar button "Reset session": reset_app_state(), then st.rerun()
reset_session_clicked ==
    /\ ~proc.rerun
    /\ PageOf(init_app_state(proc.session)) = "show_main_app"
    /\ LET s == init_app_state(proc.session)
       IN  /\ proc' = [proc EXCEPT !.session = reset_app_state(s), !.rerun = TRUE]
           /\ res' = WebRes("reset", "show_main_app", FALSE, s["logged_in_user"],
                            "", FALSE, FALSE, HasFiles(s))
    /\ UNCHANGED <<fs, ffmpeg, prov, cin, cout>>

\* the sidebar button "Log out"
log_out_clicked ==
    /\ ~proc.rerun
    /\ PageOf(init_app_state(proc.session)) = "show_main_app"
    /\ LET s == init_app_state(proc.session)
       IN  /\ proc' = [proc EXCEPT !.session =
                                       [s EXCEPT !["logged_in_user"] = NoneValue],
                                   !.rerun = TRUE]
           /\ res' = WebRes("log_out", "show_main_app", FALSE, s["logged_in_user"],
                            "", FALSE, FALSE, HasFiles(s))
    /\ UNCHANGED <<fs, ffmpeg, prov, cin, cout>>

NextWeb ==
    \/ script_run
    \/ log_in_clicked
    \/ sign_up_clicked
    \/ file_uploaded
    \/ embed_message_clicked
    \/ reset_session_clicked
    \/ log_out_clicked

SpecWeb == InitWeb /\ [][NextWeb]_vars

(***************************************************************************)
(* Properties of the web session.                                          *)
(***************************************************************************)
\* C26: right after reset_app_state the shared-file keys and the stego
\* keys are absent from the session state, and no run other than a log-in,
\* a sign-up or a log-out changes logged_in_user: whoever was logged in at
\* the start of an upload, an embed or a reset is logged in after it.
C26_ResetKeepsLogin ==
    /\ res.event = "reset" =>
          /\ \A k \in SharedKeys \cup StegoKeys : proc.session[k].tag = "absent"
          /\ proc.session["logged_in_user"].tag = "value"
    /\ res.event \in {"run", "upload", "embed", "reset"} =>
          proc.session["logged_in_user"] = res.user_before

\* the session held a shared file and a stego result when it was reset
C26_Witness ==
    /\ res.event = "reset"
    /\ res.had_files
    /\ proc.session["logged_in_user"] = Value("u")
    /\ proc.session["stego_bytes"].tag = "absent"

\* C30: the tabs of the dashboard are rendered only in a run during which
\* logged_in_user holds a user name, and logged_in_user goes from None to
\* a name only in the run of a log-in for which verify_user answered True
\* for that name, or of a sign-up for which create_user succeeded for it;
\* the name is then a user of the table.
C30_LoginGating ==
    /\ res.tabs =>
          (res.user_before.tag = "value"
              /\ proc.session["logged_in_user"] = res.user_before)
    /\ res.page = "show_main_app" => res.user_before.tag = "value"
    /\ (res.user_before.tag # "value"
           /\ proc.session["logged_in_user"].tag = "value") =>
          /\ \/ res.event = "log_in" /\ res.verify_user
             \/ res.event = "sign_up" /\ res.create_user
          /\ proc.session["logged_in_user"] = Value(res.name)
          /\ res.name \in DOMAIN fs.users

\* a log-in with the password of the account has just succeeded
C30_Witness ==
    /\ res.event = "log_in"
    /\ res.verify_user
    /\ res.user_before.tag = "none"
    /\ proc.session["logged_in_user"] = Value("w")
    /\ "u" \in DOMAIN fs.users
    /\ proc.rerun

====
